---------------------------- MODULE Spec2Model ----------------------------
(***************************************************************************)
(* Model of the behavioural AI-detection engine of backend/main.py        *)
(* (class AIDetectionEngine, static method analyze) and of the request     *)
(* handlers that call it.                                                  *)
(*                                                                         *)
(* Number representation.  The engine works on Python ints and floats.     *)
(* Here every quantity is an integer:                                      *)
(*   - durations (activeDuration, idleDuration, totalDuration) and typing  *)
(*     intervals are counted in TENTHS of their unit, so the additive      *)
(*     epsilon 0.1 of the source is the integer 1 (Epsilon);               *)
(*   - counters (keystrokes, edits, pastes, ...) are plain integers;       *)
(*   - a weight is counted in HUNDREDTHS (0.15 is 15);                     *)
(*   - aiLikelihoodScore, a float with one decimal, is counted in tenths   *)
(*     (39.9 is 399);                                                      *)
(*   - a ratio is a pair <<numerator, denominator>> and is only ever       *)
(*     compared exactly, by cross multiplication.                          *)
(*                                                                         *)
(* Python values.  A dict is a function with a domain of strings, {} is    *)
(* EmptyDict, None is the distinguished value None, a list is a sequence.  *)
(***************************************************************************)
EXTENDS Integers, Sequences, FiniteSets, TLC

VARIABLES
    WEIGHTS,        \* AIDetectionEngine.WEIGHTS, the class-level (shared) table
    session_data,   \* the argument of the current call of analyze
    result,         \* what the current call returned (NoResult while it runs)
    pc,             \* "called": analyze is about to run; "returned": it has
    seen,           \* an earlier call kept for comparison: NoCall, or its
                    \* input, its output and the number of later calls
    handlers,       \* the request handlers running analyze side by side: for
                    \* each its snapshot, its signals dict so far, its position
    ALL_QUESTS,     \* the module-level quest lookup dict
    db_quests,      \* the Firestore collection "quests": document id -> data
    response,       \* what the last quest operation returned
    deleted,        \* the document ids delete_quest has succeeded for
    sys_stdout,     \* sys.stdout of the process: "real", or "buffer" when it
                    \* is a StringIO some validate_solution has put there
    db_sessions,    \* the Firestore collection "sessions": document id -> data
    reply,          \* what the last session endpoint answered
    analyses        \* the calls of analyze made by the handler of the last request

engine_vars == <<WEIGHTS, session_data, result, pc, seen, handlers>>

quest_vars == <<ALL_QUESTS, db_quests, response, deleted, sys_stdout>>

session_vars == <<db_sessions, reply, analyses>>

vars == <<engine_vars, quest_vars, session_vars>>

-----------------------------------------------------------------------------
(* Python values *)

EmptyDict == [k \in {} |-> 0]

None == [PyNone |-> TRUE]

\* dict.get(key, default)
Get(d, key, default) == IF key \in DOMAIN d THEN d[key] ELSE default

\* bool(v) for the values a behavioralSignals entry can hold: None and {} are falsy
Truthy(v) == v # None /\ v # EmptyDict

\* int(b) for a Python bool, as sum([...]) takes it
BoolToInt(b) == IF b THEN 1 ELSE 0

Min(a, b) == IF a < b THEN a ELSE b

Max(a, b) == IF a > b THEN a ELSE b

\* The 0.1 added to every denominator, in tenths
Epsilon == 1

\* n / d > a / b and n / d < a / b for a ratio r = <<n, d>> with d > 0, b > 0
GT(r, a, b) == r[1] * b > a * r[2]

LT(r, a, b) == r[1] * b < a * r[2]

RECURSIVE SumSeq(_)
SumSeq(s) == IF s = << >> THEN 0 ELSE Head(s) + SumSeq(Tail(s))

RECURSIVE SumSquares(_)
SumSquares(s) == IF s = << >> THEN 0 ELSE Head(s) * Head(s) + SumSquares(Tail(s))

-----------------------------------------------------------------------------
(* AIDetectionEngine.WEIGHTS, in hundredths *)

WeightTable ==
    [ typing_speed    |-> 15,
      paste_ratio     |-> 20,
      typing_rhythm   |-> 15,
      deletion_ratio  |-> 10,
      burst_pattern   |-> 10,
      copilot_usage   |-> 15,
      undo_redo_ratio |-> 5,
      idle_ratio      |-> 10 ]

SignalKeys == DOMAIN WeightTable

-----------------------------------------------------------------------------
(* analyze: the local variables read from the input *)

BehavioralSignalsNoFallback(sd) == Get(sd, "behavioralSignals", EmptyDict)

\* bs = session_data.get("behavioralSignals", {}) or {}
BehavioralSignals(sd) ==
    LET v == Get(sd, "behavioralSignals", EmptyDict)
    IN  IF Truthy(v) THEN v ELSE EmptyDict

TotalKeystrokes(sd) == Get(sd, "totalKeystrokes", 0)

TotalEdits(sd) == Get(sd, "totalEdits", 0)

ActiveDuration(sd) == Get(sd, "activeDuration", 0)

IdleDuration(sd) == Get(sd, "idleDuration", 0)

\* The total duration as supplied, 0 when it is not
TotalDurationAsSupplied(sd) == Get(sd, "totalDuration", 0)

\* total_duration = session_data.get("totalDuration", 0) or (active + idle)
TotalDuration(sd) ==
    LET given == Get(sd, "totalDuration", 0)
    IN  IF given # 0 THEN given ELSE ActiveDuration(sd) + IdleDuration(sd)

\* bs.get(field, default); bs.get raises AttributeError when bs is None, which
\* Raises below accounts for, so here None reads as the default
BsGet(sd, field, default) ==
    LET bs == BehavioralSignals(sd)
    IN  IF bs = None THEN default ELSE Get(bs, field, default)

-----------------------------------------------------------------------------
(* Signal 1: typing speed *)

CpsUnguarded(total_keystrokes, active_duration) ==
    <<10 * total_keystrokes, active_duration + Epsilon>>

\* cps = total_keystrokes / (active_duration + 0.1) if active_duration > 0 else 0
Cps(total_keystrokes, active_duration) ==
    IF active_duration > 0
    THEN <<10 * total_keystrokes, active_duration + Epsilon>>
    ELSE <<0, 1>>

TypingSpeedLadderLoose(cps) ==
    IF    ~LT(cps, 8, 1)   THEN [score |-> 95, verdict |-> "ai_likely"]
    ELSE IF ~LT(cps, 5, 1)   THEN [score |-> 75, verdict |-> "ai_likely"]
    ELSE IF ~LT(cps, 35, 10) THEN [score |-> 40, verdict |-> "suspicious"]
    ELSE IF ~LT(cps, 15, 10) THEN [score |-> 10, verdict |-> "human"]
    ELSE                          [score |-> 15, verdict |-> "human"]

TypingSpeedLadder(cps) ==
    IF    GT(cps, 8, 1)   THEN [score |-> 95, verdict |-> "ai_likely"]
    ELSE IF GT(cps, 5, 1)   THEN [score |-> 75, verdict |-> "ai_likely"]
    ELSE IF GT(cps, 35, 10) THEN [score |-> 40, verdict |-> "suspicious"]
    ELSE IF GT(cps, 15, 10) THEN [score |-> 10, verdict |-> "human"]
    ELSE                         [score |-> 15, verdict |-> "human"]

TypingSpeedSignal(sd) ==
    LET l == TypingSpeedLadder(Cps(TotalKeystrokes(sd), ActiveDuration(sd)))
    IN  [name |-> "Typing Speed", score |-> l.score,
         weight |-> WEIGHTS["typing_speed"], verdict |-> l.verdict]

-----------------------------------------------------------------------------
(* Signal 2: paste ratio *)

\* total_input = total_keystrokes + paste_chars + 0.1, in tenths
TotalInput(total_keystrokes, paste_chars) ==
    10 * (total_keystrokes + paste_chars) + Epsilon

\* paste_ratio = paste_chars / total_input if total_input > 0 else 0
PasteRatio(total_keystrokes, paste_chars) ==
    IF TotalInput(total_keystrokes, paste_chars) > 0
    THEN <<10 * paste_chars, TotalInput(total_keystrokes, paste_chars)>>
    ELSE <<0, 1>>

PasteRatioLadderShifted(paste_ratio) ==
    IF    GT(paste_ratio, 8, 10) THEN [score |-> 95, verdict |-> "ai_likely"]
    ELSE IF GT(paste_ratio, 3, 10) THEN [score |-> 70, verdict |-> "ai_likely"]
    ELSE IF GT(paste_ratio, 1, 10) THEN [score |-> 15, verdict |-> "human"]
    ELSE                                [score |-> 5,  verdict |-> "human"]

PasteRatioLadder(paste_ratio) ==
    IF    GT(paste_ratio, 8, 10) THEN [score |-> 95, verdict |-> "ai_likely"]
    ELSE IF GT(paste_ratio, 5, 10) THEN [score |-> 70, verdict |-> "ai_likely"]
    ELSE IF GT(paste_ratio, 3, 10) THEN [score |-> 40, verdict |-> "suspicious"]
    ELSE IF GT(paste_ratio, 1, 10) THEN [score |-> 15, verdict |-> "human"]
    ELSE                                [score |-> 5,  verdict |-> "human"]

PasteRatioSignalCopiedWeight(sd) ==
    LET l == PasteRatioLadder(PasteRatio(TotalKeystrokes(sd),
                                         BsGet(sd, "totalPasteCharacters", 0)))
    IN  [name |-> "Paste Ratio", score |-> l.score,
         weight |-> WEIGHTS["typing_speed"], verdict |-> l.verdict]

PasteRatioSignal(sd) ==
    LET l == PasteRatioLadder(PasteRatio(TotalKeystrokes(sd),
                                         BsGet(sd, "totalPasteCharacters", 0)))
    IN  [name |-> "Paste Ratio", score |-> l.score,
         weight |-> WEIGHTS["paste_ratio"], verdict |-> l.verdict]

-----------------------------------------------------------------------------
(* Signal 3: typing rhythm *)

\* cv = stdev / (mean + 0.1) compared with a / b, for a series of n >= 2
\* non-negative intervals with sum S and sum of squares Q (in tenths):
\*   stdev^2 = (n*Q - S*S) / (n*(n-1))   (statistics.stdev, the sample deviation)
\*   mean + 0.1 = (S + n) / n
\* and, both sides being non-negative, cv < a/b  iff  cv^2 < a^2/b^2, that is
\*   b*b * n * (n*Q - S*S)  <  a*a * (n-1) * (S+n)*(S+n)
\* The same comparison with the mean alone as the divisor
CvLTPlainMean(typing_intervals, a, b) ==
    LET n == Len(typing_intervals)
        S == SumSeq(typing_intervals)
        Q == SumSquares(typing_intervals)
    IN  b * b * n * (n * Q - S * S) < a * a * (n - 1) * S * S

CvLT(typing_intervals, a, b) ==
    LET n == Len(typing_intervals)
        S == SumSeq(typing_intervals)
        Q == SumSquares(typing_intervals)
    IN  b * b * n * (n * Q - S * S) < a * a * (n - 1) * (S + n * Epsilon) * (S + n * Epsilon)

\* mean_interval + 0.1, times n: the divisor of cv
CvDivisor(typing_intervals) ==
    SumSeq(typing_intervals) + Len(typing_intervals) * Epsilon

\* The ladder with the measured branch taken from the eleventh sample on
TypingRhythmLadderAboveTen(typing_intervals, total_keystrokes) ==
    IF Len(typing_intervals) > 10
    THEN IF    CvLT(typing_intervals, 3, 10) THEN [score |-> 80, verdict |-> "ai_likely"]
         ELSE IF CvLT(typing_intervals, 5, 10) THEN [score |-> 50, verdict |-> "suspicious"]
         ELSE IF CvLT(typing_intervals, 8, 10) THEN [score |-> 20, verdict |-> "human"]
         ELSE                                       [score |-> 5,  verdict |-> "human"]
    ELSE IF total_keystrokes > 200
         THEN [score |-> 60, verdict |-> "suspicious"]
         ELSE [score |-> 20, verdict |-> "human"]

TypingRhythmLadder(typing_intervals, total_keystrokes) ==
    IF Len(typing_intervals) >= 10
    THEN IF    CvLT(typing_intervals, 3, 10) THEN [score |-> 80, verdict |-> "ai_likely"]
         ELSE IF CvLT(typing_intervals, 5, 10) THEN [score |-> 50, verdict |-> "suspicious"]
         ELSE IF CvLT(typing_intervals, 8, 10) THEN [score |-> 20, verdict |-> "human"]
         ELSE                                       [score |-> 5,  verdict |-> "human"]
    ELSE IF total_keystrokes > 200
         THEN [score |-> 60, verdict |-> "suspicious"]
         ELSE [score |-> 20, verdict |-> "human"]

TypingRhythmSignal(sd) ==
    LET l == TypingRhythmLadder(BsGet(sd, "typingIntervals", << >>), TotalKeystrokes(sd))
    IN  [name |-> "Typing Rhythm", score |-> l.score,
         weight |-> WEIGHTS["typing_rhythm"], verdict |-> l.verdict]

-----------------------------------------------------------------------------
(* Signal 4: deletion ratio *)

\* deletion_ratio = total_deletions / (total_edits + 0.1) if total_edits > 0 else 0
DeletionRatio(total_deletions, total_edits) ==
    IF total_edits > 0
    THEN <<10 * total_deletions, 10 * total_edits + Epsilon>>
    ELSE <<0, 1>>

\* The ladder with five edits still counted as too few
DeletionRatioLadderUpToFive(total_deletions, total_edits) ==
    LET deletion_ratio == DeletionRatio(total_deletions, total_edits)
    IN  IF    total_edits <= 5               THEN [score |-> 30, verdict |-> "suspicious"]
        ELSE IF LT(deletion_ratio, 5, 100)   THEN [score |-> 70, verdict |-> "ai_likely"]
        ELSE IF LT(deletion_ratio, 15, 100)  THEN [score |-> 40, verdict |-> "suspicious"]
        ELSE IF LT(deletion_ratio, 4, 10)    THEN [score |-> 10, verdict |-> "human"]
        ELSE                                      [score |-> 5,  verdict |-> "human"]

DeletionRatioLadder(total_deletions, total_edits) ==
    LET deletion_ratio == DeletionRatio(total_deletions, total_edits)
    IN  IF    total_edits < 5                THEN [score |-> 30, verdict |-> "suspicious"]
        ELSE IF LT(deletion_ratio, 5, 100)   THEN [score |-> 70, verdict |-> "ai_likely"]
        ELSE IF LT(deletion_ratio, 15, 100)  THEN [score |-> 40, verdict |-> "suspicious"]
        ELSE IF LT(deletion_ratio, 4, 10)    THEN [score |-> 10, verdict |-> "human"]
        ELSE                                      [score |-> 5,  verdict |-> "human"]

DeletionRatioSignal(sd) ==
    LET l == DeletionRatioLadder(BsGet(sd, "totalDeletions", 0), TotalEdits(sd))
    IN  [name |-> "Deletion Pattern", score |-> l.score,
         weight |-> WEIGHTS["deletion_ratio"], verdict |-> l.verdict]

-----------------------------------------------------------------------------
(* Signal 5: burst pattern *)

\* The ladder with the top rung above five bursts
BurstPatternLadderAboveFive(burst_count) ==
    IF    burst_count > 5 THEN [score |-> 80, verdict |-> "ai_likely"]
    ELSE IF burst_count >= 2 THEN [score |-> 45, verdict |-> "suspicious"]
    ELSE                          [score |-> 10, verdict |-> "human"]

BurstPatternLadder(burst_count) ==
    IF    burst_count >= 5 THEN [score |-> 80, verdict |-> "ai_likely"]
    ELSE IF burst_count >= 2 THEN [score |-> 45, verdict |-> "suspicious"]
    ELSE                          [score |-> 10, verdict |-> "human"]

BurstPatternSignal(sd) ==
    LET l == BurstPatternLadder(BsGet(sd, "burstCount", 0))
    IN  [name |-> "Burst Pattern", score |-> l.score,
         weight |-> WEIGHTS["burst_pattern"], verdict |-> l.verdict]

-----------------------------------------------------------------------------
(* Signal 6: Copilot / AI tool usage *)

\* The ladder with certainty at its top
CopilotUsageLadderCertain(copilot_accepts) ==
    IF    copilot_accepts > 10 THEN [score |-> 100, verdict |-> "ai_likely"]
    ELSE IF copilot_accepts > 3  THEN [score |-> 60, verdict |-> "suspicious"]
    ELSE IF copilot_accepts > 0  THEN [score |-> 30, verdict |-> "suspicious"]
    ELSE                              [score |-> 5,  verdict |-> "human"]

CopilotUsageLadder(copilot_accepts) ==
    IF    copilot_accepts > 10 THEN [score |-> 90, verdict |-> "ai_likely"]
    ELSE IF copilot_accepts > 3  THEN [score |-> 60, verdict |-> "suspicious"]
    ELSE IF copilot_accepts > 0  THEN [score |-> 30, verdict |-> "suspicious"]
    ELSE                              [score |-> 5,  verdict |-> "human"]

\* The signal with the autocomplete accepts counted along with Copilot's
CopilotUsageSignalCountsAutocomplete(sd) ==
    LET l == CopilotUsageLadder(BsGet(sd, "totalCopilotAccepts", 0)
                                  + BsGet(sd, "totalAutocompleteAccepts", 0))
    IN  [name |-> "AI Tool Usage", score |-> l.score,
         weight |-> WEIGHTS["copilot_usage"], verdict |-> l.verdict]

CopilotUsageSignal(sd) ==
    LET l == CopilotUsageLadder(BsGet(sd, "totalCopilotAccepts", 0))
    IN  [name |-> "AI Tool Usage", score |-> l.score,
         weight |-> WEIGHTS["copilot_usage"], verdict |-> l.verdict]

-----------------------------------------------------------------------------
(* Signal 7: undo/redo ratio *)

\* undo_ratio = total_undos / (total_edits + 0.1) if total_edits > 0 else 0
UndoRatio(total_undos, total_edits) ==
    IF total_edits > 0
    THEN <<10 * total_undos, 10 * total_edits + Epsilon>>
    ELSE <<0, 1>>

UndoRedoLadder(total_undos, total_edits) ==
    LET undo_ratio == UndoRatio(total_undos, total_edits)
    IN  IF    total_edits < 5           THEN [score |-> 25, verdict |-> "suspicious"]
        ELSE IF LT(undo_ratio, 2, 100)  THEN [score |-> 55, verdict |-> "suspicious"]
        ELSE IF LT(undo_ratio, 1, 10)   THEN [score |-> 15, verdict |-> "human"]
        ELSE                                 [score |-> 5,  verdict |-> "human"]

\* The signal with the redos counted along with the undos
UndoRedoSignalCountsRedos(sd) ==
    LET l == UndoRedoLadder(BsGet(sd, "totalUndos", 0) + BsGet(sd, "totalRedos", 0),
                            TotalEdits(sd))
    IN  [name |-> "Undo/Redo Pattern", score |-> l.score,
         weight |-> WEIGHTS["undo_redo_ratio"], verdict |-> l.verdict]

UndoRedoSignal(sd) ==
    LET l == UndoRedoLadder(BsGet(sd, "totalUndos", 0), TotalEdits(sd))
    IN  [name |-> "Undo/Redo Pattern", score |-> l.score,
         weight |-> WEIGHTS["undo_redo_ratio"], verdict |-> l.verdict]

-----------------------------------------------------------------------------
(* Signal 8: idle ratio *)

\* The plain quotient idle_duration / total_duration
IdleRatioUnprotected(idle_duration, total_duration) ==
    <<idle_duration, total_duration>>

\* idle_ratio = idle_duration / (total_duration + 0.1) if total_duration > 0 else 0
IdleRatio(idle_duration, total_duration) ==
    IF total_duration > 0
    THEN <<idle_duration, total_duration + Epsilon>>
    ELSE <<0, 1>>

\* The ladder calling a moderate share of idle time suspicious
IdleRatioLadderModerateSuspicious(idle_duration, total_duration) ==
    LET idle_ratio == IdleRatio(idle_duration, total_duration)
    IN  IF    total_duration < 300       THEN [score |-> 50, verdict |-> "suspicious"]
        ELSE IF LT(idle_ratio, 5, 100)   THEN [score |-> 50, verdict |-> "suspicious"]
        ELSE IF LT(idle_ratio, 15, 100)  THEN [score |-> 25, verdict |-> "human"]
        ELSE IF LT(idle_ratio, 5, 10)    THEN [score |-> 10, verdict |-> "suspicious"]
        ELSE                                  [score |-> 10, verdict |-> "human"]

\* total_duration < 30 is total_duration < 300 tenths
IdleRatioLadder(idle_duration, total_duration) ==
    LET idle_ratio == IdleRatio(idle_duration, total_duration)
    IN  IF    total_duration < 300       THEN [score |-> 50, verdict |-> "suspicious"]
        ELSE IF LT(idle_ratio, 5, 100)   THEN [score |-> 50, verdict |-> "suspicious"]
        ELSE IF LT(idle_ratio, 15, 100)  THEN [score |-> 25, verdict |-> "human"]
        ELSE IF LT(idle_ratio, 5, 10)    THEN [score |-> 10, verdict |-> "human"]
        ELSE                                  [score |-> 10, verdict |-> "human"]

IdleRatioSignal(sd) ==
    LET l == IdleRatioLadder(IdleDuration(sd), TotalDuration(sd))
    IN  [name |-> "Thinking Time", score |-> l.score,
         weight |-> WEIGHTS["idle_ratio"], verdict |-> l.verdict]

-----------------------------------------------------------------------------
(* analyze: the eight signals, their combination, confidence, recommendation *)

\* signals = {}; signals["typing_speed"] = ...; ...; signals["idle_ratio"] = ...
Signals(sd) ==
    [ typing_speed    |-> TypingSpeedSignal(sd),
      paste_ratio     |-> PasteRatioSignal(sd),
      typing_rhythm   |-> TypingRhythmSignal(sd),
      deletion_ratio  |-> DeletionRatioSignal(sd),
      burst_pattern   |-> BurstPatternSignal(sd),
      copilot_usage   |-> CopilotUsageSignal(sd),
      undo_redo_ratio |-> UndoRedoSignal(sd),
      idle_ratio      |-> IdleRatioSignal(sd) ]

WeightedSumStopsEarly(signals, keys) ==
    signals["typing_speed"].score * signals["typing_speed"].weight
      + signals["paste_ratio"].score * signals["paste_ratio"].weight
      + signals["typing_rhythm"].score * signals["typing_rhythm"].weight
      + signals["deletion_ratio"].score * signals["deletion_ratio"].weight
      + signals["burst_pattern"].score * signals["burst_pattern"].weight
      + signals["copilot_usage"].score * signals["copilot_usage"].weight
      + signals["idle_ratio"].score * signals["idle_ratio"].weight

\* for key, signal in signals.items(): weighted_sum += signal["score"] * w
RECURSIVE WeightedSum(_, _)
WeightedSum(signals, keys) ==
    IF keys = {} THEN 0
    ELSE LET key == CHOOSE k \in keys : TRUE
         IN  signals[key].score * signals[key].weight
               + WeightedSum(signals, keys \ {key})

\* for key, signal in signals.items(): total_weight += w
RECURSIVE TotalWeight(_, _)
TotalWeight(signals, keys) ==
    IF keys = {} THEN 0
    ELSE LET key == CHOOSE k \in keys : TRUE
         IN  signals[key].weight + TotalWeight(signals, keys \ {key})

\* round(n / d, 1) in tenths, for n >= 0 and d > 0: Python rounds a float to the
\* nearest value with one decimal, a tie going to the even neighbour.  The only
\* ties of this table are at x.25 and x.75, which are exact as floats, and the
\* float sum of the source rounds as the exact sum does for every one of the
\* 90,000 combinations of branch scores.
RoundOneDecimal(n, d) ==
    LET q == (10 * n) \div d
        r == (10 * n) % d
    IN  IF 2 * r < d THEN q
        ELSE IF 2 * r > d THEN q + 1
        ELSE IF q % 2 = 0 THEN q ELSE q + 1

\* ai_likelihood = weighted_sum / total_weight if total_weight > 0 else 0
\* ai_likelihood = min(100, max(0, round(ai_likelihood, 1)))       (in tenths)
AiLikelihood(signals) ==
    LET weighted_sum == WeightedSum(signals, DOMAIN signals)
        total_weight == TotalWeight(signals, DOMAIN signals)
        ai_likelihood == IF total_weight > 0
                         THEN RoundOneDecimal(weighted_sum, total_weight)
                         ELSE 0
    IN  Min(1000, Max(0, ai_likelihood))

DataPointsEditsFromTen(sd) ==
    LET has_intervals  == Len(BsGet(sd, "typingIntervals", << >>)) >= 10
        has_behavioral == BehavioralSignals(sd) # EmptyDict
    IN  BoolToInt(has_intervals) + BoolToInt(has_behavioral)
          + BoolToInt(TotalEdits(sd) >= 10)
          + BoolToInt(ActiveDuration(sd) > 600)
          + BoolToInt(TotalKeystrokes(sd) > 50)

\* data_points = sum([has_intervals, has_behavioral, total_edits > 10,
\*                    active_duration > 60, total_keystrokes > 50])
DataPoints(sd) ==
    LET has_intervals  == Len(BsGet(sd, "typingIntervals", << >>)) >= 10
        has_behavioral == BehavioralSignals(sd) # EmptyDict
    IN  BoolToInt(has_intervals) + BoolToInt(has_behavioral)
          + BoolToInt(TotalEdits(sd) > 10)
          + BoolToInt(ActiveDuration(sd) > 600)
          + BoolToInt(TotalKeystrokes(sd) > 50)

ConfidenceTimesTwenty(sd) == DataPoints(sd) * 20

\* confidence = min(95, data_points * 19)
Confidence(sd) == Min(95, DataPoints(sd) * 19)

RecommendationHigh ==
    "High likelihood of AI-generated code. Review behavioral signals for details."

RecommendationModerate ==
    "Moderate AI indicators detected. Some code may be AI-assisted."

RecommendationHuman ==
    "Code appears to be human-written based on behavioral analysis."

RecommendationStrict(ai_likelihood) ==
    IF ai_likelihood > 700 THEN RecommendationHigh
    ELSE IF ai_likelihood > 400 THEN RecommendationModerate
    ELSE RecommendationHuman

\* if ai_likelihood >= 70: ... elif ai_likelihood >= 40: ... else: ...
Recommendation(ai_likelihood) ==
    IF ai_likelihood >= 700 THEN RecommendationHigh
    ELSE IF ai_likelihood >= 400 THEN RecommendationModerate
    ELSE RecommendationHuman

\* The exceptions the body of analyze can raise on a dict of numbers:
\* AttributeError from bs.get when bs is None, ZeroDivisionError from a division
\* whose guard lets a zero divisor through (statistics.stdev needs two values,
\* which the guard len >= 10 gives it).
Raises(sd) ==
    \/ BehavioralSignals(sd) = None
    \/ Cps(TotalKeystrokes(sd), ActiveDuration(sd))[2] = 0
    \/ PasteRatio(TotalKeystrokes(sd), BsGet(sd, "totalPasteCharacters", 0))[2] = 0
    \/ /\ Len(BsGet(sd, "typingIntervals", << >>)) >= 10
       /\ CvDivisor(BsGet(sd, "typingIntervals", << >>)) = 0
    \/ DeletionRatio(BsGet(sd, "totalDeletions", 0), TotalEdits(sd))[2] = 0
    \/ UndoRatio(BsGet(sd, "totalUndos", 0), TotalEdits(sd))[2] = 0
    \/ IdleRatio(IdleDuration(sd), TotalDuration(sd))[2] = 0

\* What a call that raised leaves its caller with
Exception == [status |-> "exception"]

\* AIDetectionEngine.analyze(session_data)
Analyze(sd) ==
    IF Raises(sd) THEN Exception
    ELSE [ status            |-> "success",
           aiLikelihoodScore |-> AiLikelihood(Signals(sd)),
           confidence        |-> Confidence(sd),
           signals           |-> Signals(sd),
           recommendation    |-> Recommendation(AiLikelihood(Signals(sd))) ]

-----------------------------------------------------------------------------
(* The telemetry snapshots the engine is run on *)

MaxKeystrokes == 9

MaxTenths == 6

MaxEdits == 12

MaxDeletions == 5

MaxUndos == 2

MaxBursts == 5

MaxAccepts == 11

MaxPasteChars == 5

MaxInterval == 5

MaxSeriesLen == 11

\* The five counters and durations every caller passes (SessionUpdateRequest)
Telemetry(k, p, e, ad, idle) ==
    [ totalKeystrokes |-> k, totalPastes |-> p, totalEdits |-> e,
      activeDuration |-> ad, idleDuration |-> idle ]

WithTotal(sd, td) == ("totalDuration" :> td) @@ sd

WithSignals(sd, bs) == ("behavioralSignals" :> bs) @@ sd

\* BehavioralSignalsModel.dict(): all twelve fields
FullSignals(paste_chars, intervals, deletions, bursts, copilot, autocomplete, undos, redos) ==
    [ totalClipboardPastes     |-> 0,
      totalPasteCharacters     |-> paste_chars,
      totalAutocompleteAccepts |-> autocomplete,
      totalCopilotAccepts      |-> copilot,
      totalUndos               |-> undos,
      totalRedos               |-> redos,
      totalFormatActions       |-> 0,
      totalSnippetInserts      |-> 0,
      typingIntervals          |-> intervals,
      burstCount               |-> bursts,
      totalDeletions           |-> deletions,
      deletionCharacters       |-> 0 ]

ZeroSignals == FullSignals(0, << >>, 0, 0, 0, 0, 0, 0)

\* A series of n intervals: m of them hi, the others lo
Series(n, lo, hi, m) == [i \in 1..n |-> IF i <= m THEN hi ELSE lo]

KeystrokeValues == (0..MaxKeystrokes) \cup {50, 51, 200, 201, 1000}

\* tenths of a second: 600 is the 60 s of the confidence rule
ActiveValues == (0..MaxTenths) \cup {9, 600, 601, 1000}

PasteCharValues == (0..MaxPasteChars) \cup {21, 900}

IdleValues == {0, 15, 16, 47, 48, 160, 300}

TotalValues == {0, 299, 300, 319}

IntervalSeries ==
    { Series(n, lo, hi, m) : n \in {0, 9, 10, MaxSeriesLen},
                             lo \in 0..1, hi \in 1..MaxInterval, m \in 0..2 }

UniformSeries == Series(10, 0, 0, 0)

SpreadSeries == Series(10, 0, 5, 2)

\* typing speed alone: no behavioralSignals key
SpeedFamily ==
    { Telemetry(k, 0, 0, ad, 0) : k \in KeystrokeValues, ad \in ActiveValues }

\* a behavioralSignals with the one field of the paste ratio
PasteFamily ==
    { WithSignals(Telemetry(k, 0, 0, 0, 0), [totalPasteCharacters |-> p]) :
        k \in KeystrokeValues, p \in PasteCharValues }

RhythmFamily ==
    { WithSignals(Telemetry(k, 0, 0, 0, 0), FullSignals(0, ti, 0, 0, 0, 0, 0, 0)) :
        k \in {0, 200, 201}, ti \in IntervalSeries }

\* 19, 20 and 49, 50 edits: one deletion in them is 0.05, one undo 0.02
EditValues == (0..MaxEdits) \cup {19, 20, 49, 50}

EditFamily ==
    { WithSignals(Telemetry(0, 0, e, 0, 0), FullSignals(0, << >>, d, 0, 0, 0, u, r)) :
        e \in EditValues, d \in 0..MaxDeletions, u \in 0..MaxUndos, r \in 0..1 }

\* totalDuration absent, or given: 0, or at least both of its components
DurationFamily ==
    { Telemetry(0, 0, 0, ad, idle) : ad \in ActiveValues, idle \in IdleValues }
    \cup
    { WithTotal(Telemetry(0, 0, 0, c[1], c[2]), c[3]) :
        c \in { x \in ActiveValues \X IdleValues \X TotalValues :
                  x[3] = 0 \/ (x[3] >= x[1] /\ x[3] >= x[2]) } }

ToolFamily ==
    { WithSignals(Telemetry(0, 0, 0, 0, 0), FullSignals(0, << >>, 0, b, c, a, 0, 0)) :
        b \in 0..MaxBursts, c \in 0..MaxAccepts, a \in {0, MaxAccepts} }

\* the shapes of the input: {}, no behavioralSignals, None, {}, partial, full
ShapeBases ==
    { Telemetry(0, 0, 0, 0, 0), Telemetry(100, 0, 0, 0, 0),
      Telemetry(1000, 0, 0, 1000, 0), Telemetry(51, 3, 11, 601, 20) }

\* a session that recorded nothing
ZeroSnapshot == [totalKeystrokes |-> 0, activeDuration |-> 0, idleDuration |-> 0]

ShapeFamily ==
    {EmptyDict, ZeroSnapshot}
    \cup ShapeBases
    \cup { WithTotal(t, t.activeDuration + t.idleDuration) : t \in ShapeBases }
    \cup { WithSignals(t, bs) :
             t \in ShapeBases,
             bs \in {None, EmptyDict, ZeroSignals, [totalPasteCharacters |-> 900]} }

\* all eight signals varied together, each over inputs of its extreme branches
CrossFamily ==
    { WithSignals(Telemetry(k, 0, e, ad, idle),
                  FullSignals(p, ti, d, b, c, 0, u, 0)) :
        k \in {0, 1, 5, 1000}, ad \in {4, 1000}, idle \in {0, 300}, e \in {0, 11},
        p \in {0, 21, 900}, ti \in {<< >>, UniformSeries, SpreadSeries},
        d \in {0, 5}, b \in {0, 5}, c \in {0, 11}, u \in {0, 2} }

\* detection_input of analyze_code with the keystrokes counted as edits too
QuestDetectionInputCountsEdits(keystrokes, duration) ==
    [ totalKeystrokes   |-> keystrokes,
      totalPastes       |-> 0,
      totalEdits        |-> keystrokes,
      activeDuration    |-> duration,
      idleDuration      |-> 0,
      totalDuration     |-> duration,
      behavioralSignals |-> EmptyDict ]

\* detection_input of analyze_code: a quest submission has its keystrokes and
\* its duration only
QuestDetectionInput(keystrokes, duration) ==
    [ totalKeystrokes   |-> keystrokes,
      totalPastes       |-> 0,
      totalEdits        |-> 0,
      activeDuration    |-> duration,
      idleDuration      |-> 0,
      totalDuration     |-> duration,
      behavioralSignals |-> EmptyDict ]

\* the quest submissions of POST /analyze
QuestFamily ==
    { QuestDetectionInput(k, d) : k \in KeystrokeValues, d \in ActiveValues }

Inputs ==
    SpeedFamily \cup PasteFamily \cup RhythmFamily \cup EditFamily
      \cup DurationFamily \cup ToolFamily \cup ShapeFamily \cup CrossFamily
      \cup QuestFamily

-----------------------------------------------------------------------------
(* Quests: the hardcoded tables, the Firestore collection and the lookup.   *)
(* A quest carries its title, xp, language, level and test cases; the task  *)
(* text travels with the title and the server timestamps are left out.      *)
(* Firestore is taken to answer every request.                              *)

\* A key of ALL_QUESTS: an int (a hardcoded id) or a str (a document id)
IntKey(n) == [int |-> n]

StrKey(s) == [str |-> s]

\* title.lower().replace(' ', '_')
TitleSlug ==
    [ t \in {"Loop Logic", "loop logic", "Variable Swap", "Two Sum", "Navigation Bar"} |->
        CASE t \in {"Loop Logic", "loop logic"} -> "loop_logic"
          [] t = "Navigation Bar" -> "navigation_bar"
          [] t = "Variable Swap" -> "variable_swap"
          [] t = "Two Sum" -> "two_sum" ]

\* lang_map.get((language or "python").lower().strip(), ...)
NormalizeLanguage(language) ==
    CASE language \in {"", "py", "python"} -> "python"
      [] language \in {"js", "javascript"} -> "javascript"
      [] OTHER -> language

\* doc_id = f"{lang}_{title.lower().replace(' ', '_')}", kept as the pair
DocId(lang, title) == <<lang, TitleSlug[title]>>

\* LANGUAGE_QUESTS in iteration order, three of its quests: javascript comes
\* first, javascript and html got their ids from _next_id, python keeps the
\* id of CHALLENGES
HardcodedQuests ==
    << [ lang |-> "javascript", level |-> "Beginner",
         quest |-> [ id |-> 100, title |-> "Loop Logic", xp |-> 50,
                     language |-> "javascript",
                     testCases |-> << [type |-> "code_contains", expected |-> <<"for">>],
                                      [type |-> "code_contains_any",
                                       expected |-> <<"console.log", "console.info">>] >> ] ],
       [ lang |-> "python", level |-> "Beginner",
         quest |-> [ id |-> 2, title |-> "Variable Swap", xp |-> 40,
                     language |-> "python",
                     testCases |-> << [type |-> "code_contains", expected |-> <<"=">>],
                                      [type |-> "code_not_contains",
                                       expected |-> <<"temp", "tmp", "third">>] >> ] ],
       [ lang |-> "html", level |-> "Beginner",
         quest |-> [ id |-> 185, title |-> "Navigation Bar", xp |-> 50,
                     language |-> "html",
                     testCases |-> << [type |-> "code_contains",
                                       expected |-> <<"<nav>", "<ul>", "<li>", "<a ", "href">>],
                                      [type |-> "code_count", pattern |-> "<li>",
                                       min |-> 3] >> ] ] >>

HardcodedKeys == { IntKey(HardcodedQuests[i].quest.id) : i \in DOMAIN HardcodedQuests }

\* ALL_QUESTS = {}; for lang ...: for level ...: for q ...: ALL_QUESTS[q["id"]] = q
HardcodedLookup ==
    [ k \in HardcodedKeys |->
        HardcodedQuests[CHOOSE i \in DOMAIN HardcodedQuests :
                            HardcodedQuests[i].quest.id = k.int].quest ]

NoDocs == [d \in {} |-> 0]

\* No quest operation has returned yet
NoResponse == [op |-> "none"]

\* The state of the quests when the process has started on an empty collection
QuestsAtStartup ==
    /\ ALL_QUESTS = HardcodedLookup
    /\ db_quests = NoDocs
    /\ response = NoResponse
    /\ deleted = {}
    /\ sys_stdout = "real"

\* No session endpoint has answered yet
NoReply == [endpoint |-> "none"]

\* The state of the sessions when the process has started on an empty collection
SessionsAtStartup ==
    /\ db_sessions = NoDocs
    /\ reply = NoReply
    /\ analyses = 0

-----------------------------------------------------------------------------
(* The calls of analyze *)

NoResult == [status |-> "pending"]

\* A request handler that has not called analyze
IdleHandler ==
    [ at |-> "idle", given |-> EmptyDict, snapshot |-> EmptyDict,
      signals |-> EmptyDict, out |-> NoResult, overlapped |-> FALSE ]

MaxHandlers == 2

Handlers == 1..MaxHandlers

NoHandlers == [h \in Handlers |-> IdleHandler]

\* No call is kept yet.  later counts the calls that returned after the kept one.
NoCall == [input |-> EmptyDict, output |-> NoResult, later |-> 0]

MaxCalls == 3

TypeOK ==
    /\ pc \in {"called", "returned"}
    /\ DOMAIN WEIGHTS = SignalKeys
    /\ result.status \in {"pending", "success", "exception"}
    /\ seen.later \in 0..MaxCalls

Init ==
    /\ WEIGHTS = WeightTable
    /\ session_data \in Inputs
    /\ result = NoResult
    /\ pc = "called"
    /\ seen = NoCall
    /\ handlers = NoHandlers
    /\ QuestsAtStartup
    /\ SessionsAtStartup

\* A call that writes to the shared table: with no typing intervals to judge,
\* it drops the rhythm weight in AIDetectionEngine.WEIGHTS for the calls to come
AnalyzeCallAdaptsWeights ==
    /\ pc = "called"
    /\ WEIGHTS' = IF Len(BsGet(session_data, "typingIntervals", << >>)) >= 10
                  THEN WEIGHTS
                  ELSE [WEIGHTS EXCEPT !["typing_rhythm"] = 0]
    /\ result' = Analyze(session_data)
    /\ pc' = "returned"
    /\ seen' = IF seen = NoCall THEN seen ELSE [seen EXCEPT !.later = @ + 1]
    /\ UNCHANGED <<session_data, handlers, quest_vars, session_vars>>

\* detection_result = AIDetectionEngine.analyze(detection_input): the call
\* reads WEIGHTS and its argument and assigns neither
AnalyzeCall ==
    /\ pc = "called"
    /\ result' = Analyze(session_data)
    /\ pc' = "returned"
    /\ seen' = IF seen = NoCall THEN seen ELSE [seen EXCEPT !.later = @ + 1]
    /\ UNCHANGED <<WEIGHTS, session_data, handlers, quest_vars, session_vars>>

Next == AnalyzeCall

Spec == Init /\ [][Next]_vars

-----------------------------------------------------------------------------
(* Repeated calls: a request handler calls analyze again and again, on the  *)
(* same or on another snapshot; one earlier call is kept to compare with.   *)

RepeatInputs == ShapeFamily

InitRepeat ==
    /\ WEIGHTS = WeightTable
    /\ session_data \in RepeatInputs
    /\ result = NoResult
    /\ pc = "called"
    /\ seen = NoCall
    /\ handlers = NoHandlers
    /\ QuestsAtStartup
    /\ SessionsAtStartup

\* The observer keeps the call that has just returned
Remember ==
    /\ pc = "returned"
    /\ seen = NoCall
    /\ seen' = [input |-> session_data, output |-> result, later |-> 0]
    /\ UNCHANGED <<WEIGHTS, session_data, result, pc, handlers, quest_vars, session_vars>>

\* The next request arrives: session_end, detect_ai or analyze_code builds a
\* fresh detection_input and calls analyze
NextRequest ==
    /\ pc = "returned"
    /\ seen.later < MaxCalls
    /\ \E sd \in RepeatInputs :
         /\ session_data' = sd
         /\ result' = NoResult
         /\ pc' = "called"
    /\ UNCHANGED <<WEIGHTS, seen, handlers, quest_vars, session_vars>>

NextRepeat == AnalyzeCall \/ Remember \/ NextRequest

SpecRepeat == InitRepeat /\ [][NextRepeat]_vars


-----------------------------------------------------------------------------
(* Concurrent calls: several request handlers run analyze side by side,    *)
(* each on the detection_input it has built, and their statements          *)
(* interleave in any order.  A call works on its locals and on its own     *)
(* signals dict; what the calls share is the class attribute WEIGHTS.      *)

\* The statements of analyze that fill the signals dict, in program order
SignalOrder ==
    << "typing_speed", "paste_ratio", "typing_rhythm", "deletion_ratio",
       "burst_pattern", "copilot_usage", "undo_redo_ratio", "idle_ratio" >>

\* The position after the statement that fills signals[key]
After(key) ==
    LET i == CHOOSE j \in DOMAIN SignalOrder : SignalOrder[j] = key
    IN  IF i < Len(SignalOrder) THEN SignalOrder[i + 1] ELSE "combine"

\* The snapshots the handlers build: nothing recorded, fast typing alone, a
\* quiet session with empty signals, a pasted one with every signal high
ConcurrentInputs ==
    { ZeroSnapshot,
      Telemetry(1000, 0, 0, 1000, 0),
      WithSignals(Telemetry(51, 3, 11, 601, 20), ZeroSignals),
      WithSignals(Telemetry(1000, 0, 11, 1000, 300),
                  FullSignals(900, UniformSeries, 0, 5, 11, 0, 0, 0)) }

\* Another handler is inside analyze
OthersRunning(h) ==
    \E g \in Handlers \ {h} : handlers[g].at \notin {"idle", "returned"}

InitConcurrent ==
    /\ WEIGHTS = WeightTable
    /\ session_data = EmptyDict
    /\ result = NoResult
    /\ pc = "called"
    /\ seen = NoCall
    /\ handlers = NoHandlers
    /\ QuestsAtStartup
    /\ SessionsAtStartup

\* A handler builds its detection_input and enters analyze
HandlerCall(h) ==
    /\ handlers[h].at = "idle"
    /\ \E sd \in ConcurrentInputs :
         handlers' = [handlers EXCEPT ![h] =
                        [@ EXCEPT !.at = SignalOrder[1], !.given = sd, !.snapshot = sd]]
    /\ UNCHANGED <<WEIGHTS, session_data, result, pc, seen, quest_vars, session_vars>>

\* A statement that, having scored a signal "human", also clears the weight of
\* that signal in the shared table
SignalStepMutesWeight(h) ==
    LET key == handlers[h].at
        signal == Signals(handlers[h].snapshot)[key]
    IN  /\ key \in SignalKeys
        /\ handlers' = [handlers EXCEPT ![h] =
               [@ EXCEPT !.signals = [k \in DOMAIN @ \cup {key} |->
                                         IF k = key THEN signal ELSE @[k]],
                         !.at = After(key),
                         !.overlapped = @ \/ OthersRunning(h)]]
        /\ WEIGHTS' = IF signal.verdict = "human"
                      THEN [WEIGHTS EXCEPT ![key] = 0]
                      ELSE WEIGHTS
        /\ UNCHANGED <<session_data, result, pc, seen, quest_vars, session_vars>>

\* signals[key] = {"name": ..., "score": ..., "weight": WEIGHTS[key], ...}:
\* the statement reads the snapshot and the shared table and writes its own dict
SignalStep(h) ==
    LET key == handlers[h].at
    IN  /\ key \in SignalKeys
        /\ handlers' = [handlers EXCEPT ![h] =
               [@ EXCEPT !.signals = [k \in DOMAIN @ \cup {key} |->
                                         IF k = key
                                         THEN Signals(handlers[h].snapshot)[key]
                                         ELSE @[k]],
                         !.at = After(key),
                         !.overlapped = @ \/ OthersRunning(h)]]
        /\ UNCHANGED <<WEIGHTS, session_data, result, pc, seen, quest_vars, session_vars>>

\* The weighted combination, the confidence, the recommendation and the return
CombineStep(h) ==
    LET sd == handlers[h].snapshot
        signals == handlers[h].signals
    IN  /\ handlers[h].at = "combine"
        /\ handlers' = [handlers EXCEPT ![h] =
               [@ EXCEPT !.out = IF Raises(sd) THEN Exception
                                 ELSE [ status            |-> "success",
                                        aiLikelihoodScore |-> AiLikelihood(signals),
                                        confidence        |-> Confidence(sd),
                                        signals           |-> signals,
                                        recommendation    |->
                                            Recommendation(AiLikelihood(signals)) ],
                         !.at = "returned",
                         !.overlapped = @ \/ OthersRunning(h)]]
        /\ UNCHANGED <<WEIGHTS, session_data, result, pc, seen, quest_vars, session_vars>>

NextConcurrent ==
    \E h \in Handlers : HandlerCall(h) \/ SignalStep(h) \/ CombineStep(h)

SpecConcurrent == InitConcurrent /\ [][NextConcurrent]_vars

-----------------------------------------------------------------------------
(* The quest operations: the admin endpoints, each rebuilding the lookup,  *)
(* and validate_solution, which reads it.  A submitted code is the set of  *)
(* the patterns that occur in it.                                          *)

\* data = doc.to_dict(); data["id"] = doc.id
LookupEntry(docs, d) ==
    [f \in DOMAIN docs[d] \cup {"id"} |-> IF f = "id" THEN d ELSE docs[d][f]]

\* _rebuild_quest_lookup: merged = dict(ALL_QUESTS); for doc in the collection:
\* merged[doc.id] = data; ALL_QUESTS = merged
RebuildQuestLookup(lookup, docs) ==
    LET keys == { StrKey(d) : d \in DOMAIN docs }
    IN  [k \in DOMAIN lookup \cup keys |->
            IF k \in keys THEN LookupEntry(docs, k.str) ELSE lookup[k]]

\* doc_ref.set(doc_data)
SetDoc(docs, d, data) ==
    [x \in DOMAIN docs \cup {d} |-> IF x = d THEN data ELSE docs[x]]

\* The loop of seed_quests from the i-th hardcoded quest on: acc holds the
\* collection and the two counters
RECURSIVE SeedFrom(_, _)
SeedFrom(acc, i) ==
    IF i > Len(HardcodedQuests) THEN acc
    ELSE LET h == HardcodedQuests[i]
             doc_id == DocId(h.lang, h.quest.title)
         IN  IF doc_id \in DOMAIN acc.docs
             THEN SeedFrom([acc EXCEPT !.skipped = @ + 1], i + 1)
             ELSE SeedFrom([ docs    |-> SetDoc(acc.docs, doc_id,
                                           [ title     |-> h.quest.title,
                                             xp        |-> h.quest.xp,
                                             language  |-> h.lang,
                                             level     |-> h.level,
                                             testCases |-> h.quest.testCases ]),
                             seeded  |-> acc.seeded + 1,
                             skipped |-> acc.skipped ], i + 1)

\* The bodies of POST /admin/quests the admin sends
CreateRequests ==
    { [ title |-> "Two Sum", xp |-> 30, language |-> "py", level |-> "Beginner",
        testCases |-> << >> ],
      [ title |-> "loop logic", xp |-> 10, language |-> "js", level |-> "Advanced",
        testCases |-> << [type |-> "code_contains", expected |-> <<"while">>] >> ] }

\* The bodies of PUT /admin/quests/{quest_id}: the fields that are not None
UpdateRequests == { EmptyDict, [xp |-> 60] }

\* The document ids of the paths of PUT and DELETE
QuestIds ==
    { DocId("javascript", "Loop Logic"), DocId("python", "Variable Swap"),
      DocId("python", "Two Sum") }

\* The collection when the process starts: empty, or left by an earlier run
StoredAtStartup ==
    { NoDocs,
      SetDoc(NoDocs, DocId("python", "Two Sum"),
             [ title |-> "Two Sum", xp |-> 30, language |-> "python",
               level |-> "Beginner", testCases |-> << >> ]) }

\* A submitted code: how often each pattern occurs in its text
\* (code.count(pattern), 0 for a pattern not listed), the number of its lines
\* that are neither blank nor comments, what exec(code) does ("returns",
\* "raises" an Exception, "exits" with SystemExit or KeyboardInterrupt), the
\* strings its printed output contains, and what the function it defines does
\* on the inputs of a function_test ("none" when it defines no callable)
Code(occurs, lines, run, output, function) ==
    [ occurs |-> occurs, lines |-> lines, run |-> run, output |-> output,
      function |-> function ]

\* A code that contains each of the patterns once and prints nothing
PlainCode(patterns) ==
    Code([p \in patterns |-> 1], 1, "returns", {}, "none")

\* code.count(pattern)
Occurs(code, pattern) == Get(code.occurs, pattern, 0)

\* pattern in code
Contains(code, pattern) == Occurs(code, pattern) > 0

\* The submitted codes of the quest operations
Codes == { PlainCode({}), PlainCode({"=", "for", "console.log"}) }

\* The quest ids validate_solution is called with: known and unknown ints, strs
ValidatedKeys == HardcodedKeys \cup {IntKey(7)} \cup { StrKey(d) : d \in QuestIds }

\* What one test case did: whether it counted as passed, what sys.stdout is
\* after it, and whether an exception left validate_solution through it
TestOutcome(pass, stdout, escaped) ==
    [pass |-> pass, stdout |-> stdout, escaped |-> escaped]

\* One pass of the loop body: the elif chain on test_type, with sys.stdout as
\* the test finds it.  A type that matches no branch passes nothing.  Both
\* try blocks catch Exception only.
RunTest(code, quest, test, stdout) ==
    LET test_type == Get(test, "type", "")
        expected == Get(test, "expected", << >>)
        quest_lang == Get(quest, "language", "python")
    IN  CASE test_type = "code_contains" ->
               TestOutcome(\A i \in DOMAIN expected : Contains(code, expected[i]),
                           stdout, FALSE)
          [] test_type = "code_not_contains" ->
               TestOutcome(~ \E i \in DOMAIN expected : Contains(code, expected[i]),
                           stdout, FALSE)
          [] test_type = "code_contains_any" ->
               TestOutcome(\E i \in DOMAIN expected : Contains(code, expected[i]),
                           stdout, FALSE)
          [] test_type = "output_contains" ->
               IF quest_lang # "python"
               THEN TestOutcome(\E i \in DOMAIN expected : Contains(code, expected[i]),
                                stdout, FALSE)
               \* old_stdout = sys.stdout; sys.stdout = buffer; exec(code, ...);
               \* output = buffer.getvalue(); sys.stdout = old_stdout
               ELSE IF code.run = "exits" THEN TestOutcome(FALSE, "buffer", TRUE)
               ELSE IF code.run = "raises" THEN TestOutcome(FALSE, "buffer", FALSE)
               ELSE TestOutcome(\A i \in DOMAIN expected : expected[i] \in code.output,
                                stdout, FALSE)
          [] test_type = "function_test" ->
               IF quest_lang # "python" THEN TestOutcome(TRUE, stdout, FALSE)
               ELSE IF code.run = "exits" THEN TestOutcome(FALSE, stdout, TRUE)
               ELSE IF code.run = "raises" THEN TestOutcome(FALSE, stdout, FALSE)
               ELSE TestOutcome(code.function = "right", stdout, FALSE)
          [] test_type = "code_line_count" ->
               TestOutcome(code.lines <= Get(test, "max_lines", 100), stdout, FALSE)
          [] test_type = "code_count" ->
               TestOutcome(Occurs(code, Get(test, "pattern", ""))
                               >= Get(test, "min_count", 1),
                           stdout, FALSE)
          [] OTHER -> TestOutcome(FALSE, stdout, FALSE)

\* for i, test in enumerate(test_cases): ... from the i-th test case on
RECURSIVE RunTests(_, _, _, _, _)
RunTests(code, quest, test_cases, i, acc) ==
    IF i > Len(test_cases) \/ acc.escaped THEN acc
    ELSE LET o == RunTest(code, quest, test_cases[i], acc.stdout)
         IN  RunTests(code, quest, test_cases, i + 1,
                      [ tests_passed |-> acc.tests_passed + BoolToInt(o.pass),
                        stdout       |-> o.stdout,
                        escaped      |-> o.escaped ])

\* What the caller is left with when an exception leaves validate_solution
Escaped == [raised |-> "BaseException"]

\* validate_solution(code, quest_id) with sys.stdout as the call finds it: what
\* it returns and sys.stdout after it; the failure message is cut to its head
ValidateSolution(code, quest_id, stdout) ==
    IF quest_id \notin DOMAIN ALL_QUESTS
    THEN [ validation |-> [ passed |-> FALSE, message |-> "Quest not found",
                            tests_passed |-> 0, tests_total |-> 0 ],
           stdout |-> stdout ]
    ELSE LET quest == ALL_QUESTS[quest_id]
             test_cases == Get(quest, "testCases", << >>)
             tests_total == Len(test_cases)
             done == RunTests(code, quest, test_cases, 1,
                              [tests_passed |-> 0, stdout |-> stdout, escaped |-> FALSE])
         IN  IF tests_total = 0
             THEN [ validation |-> [ passed |-> TRUE, message |-> "No test cases defined",
                                     tests_passed |-> 0, tests_total |-> 0 ],
                    stdout |-> stdout ]
             ELSE IF done.escaped
             THEN [ validation |-> Escaped, stdout |-> done.stdout ]
             ELSE [ validation |->
                      [ passed |-> 2 * done.tests_passed >= tests_total,
                        message |-> IF 2 * done.tests_passed >= tests_total
                                    THEN "Solution accepted!" ELSE "Solution failed",
                        tests_passed |-> done.tests_passed,
                        tests_total |-> tests_total ],
                    stdout |-> done.stdout ]

InitQuests ==
    /\ WEIGHTS = WeightTable
    /\ session_data = EmptyDict
    /\ result = NoResult
    /\ pc = "called"
    /\ seen = NoCall
    /\ handlers = NoHandlers
    /\ ALL_QUESTS = HardcodedLookup
    /\ db_quests \in StoredAtStartup
    /\ response = NoResponse
    /\ deleted = {}
    /\ sys_stdout = "real"
    /\ SessionsAtStartup

\* POST /admin/quests/seed
SeedQuests ==
    LET done == SeedFrom([docs |-> db_quests, seeded |-> 0, skipped |-> 0], 1)
    IN  /\ db_quests' = done.docs
        /\ ALL_QUESTS' = RebuildQuestLookup(ALL_QUESTS, done.docs)
        /\ response' = [ op |-> "seed_quests", code |-> 200, status |-> "success",
                         seeded |-> done.seeded, skipped |-> done.skipped ]
        /\ UNCHANGED <<engine_vars, session_vars, deleted, sys_stdout>>

\* POST /admin/quests without the check for an existing document
CreateQuestOverwrites(req) ==
    LET lang == NormalizeLanguage(req.language)
        doc_id == DocId(lang, req.title)
        doc_data == [ title |-> req.title, xp |-> req.xp, language |-> lang,
                      level |-> req.level, testCases |-> req.testCases ]
    IN  /\ db_quests' = SetDoc(db_quests, doc_id, doc_data)
        /\ ALL_QUESTS' =
               RebuildQuestLookup(ALL_QUESTS, SetDoc(db_quests, doc_id, doc_data))
        /\ response' = [ op |-> "create_quest", code |-> 200,
                         status |-> "success", id |-> doc_id ]
        /\ UNCHANGED <<engine_vars, session_vars, deleted, sys_stdout>>

\* POST /admin/quests
CreateQuest(req) ==
    LET lang == NormalizeLanguage(req.language)
        doc_id == DocId(lang, req.title)
        doc_data == [ title |-> req.title, xp |-> req.xp, language |-> lang,
                      level |-> req.level, testCases |-> req.testCases ]
    IN  /\ IF doc_id \in DOMAIN db_quests
           THEN /\ response' = [op |-> "create_quest", code |-> 409, id |-> doc_id]
                /\ UNCHANGED <<db_quests, ALL_QUESTS>>
           ELSE /\ db_quests' = SetDoc(db_quests, doc_id, doc_data)
                /\ ALL_QUESTS' =
                       RebuildQuestLookup(ALL_QUESTS, SetDoc(db_quests, doc_id, doc_data))
                /\ response' = [ op |-> "create_quest", code |-> 200,
                                 status |-> "success", id |-> doc_id ]
        /\ UNCHANGED <<engine_vars, session_vars, deleted, sys_stdout>>

\* PUT /admin/quests/{quest_id}
UpdateQuest(quest_id, req) ==
    LET update_data ==
            [f \in DOMAIN req |->
                IF f = "language" THEN NormalizeLanguage(req[f]) ELSE req[f]]
        updated ==
            [f \in DOMAIN db_quests[quest_id] \cup DOMAIN update_data |->
                IF f \in DOMAIN update_data THEN update_data[f]
                ELSE db_quests[quest_id][f]]
        docs == IF update_data = EmptyDict THEN db_quests
                ELSE SetDoc(db_quests, quest_id, updated)
    IN  /\ IF quest_id \notin DOMAIN db_quests
           THEN /\ response' = [op |-> "update_quest", code |-> 404, id |-> quest_id]
                /\ UNCHANGED <<db_quests, ALL_QUESTS>>
           ELSE /\ db_quests' = docs
                /\ ALL_QUESTS' = RebuildQuestLookup(ALL_QUESTS, docs)
                /\ response' = [ op |-> "update_quest", code |-> 200,
                                 status |-> "success", id |-> quest_id,
                                 quest |-> LookupEntry(docs, quest_id) ]
        /\ UNCHANGED <<engine_vars, session_vars, deleted, sys_stdout>>

\* DELETE /admin/quests/{quest_id}
DeleteQuest(quest_id) ==
    LET docs == [d \in DOMAIN db_quests \ {quest_id} |-> db_quests[d]]
    IN  IF quest_id \notin DOMAIN db_quests
        THEN /\ response' = [op |-> "delete_quest", code |-> 404, id |-> quest_id]
             /\ UNCHANGED <<engine_vars, session_vars, db_quests, ALL_QUESTS,
                            deleted, sys_stdout>>
        ELSE /\ db_quests' = docs
             /\ ALL_QUESTS' = RebuildQuestLookup(ALL_QUESTS, docs)
             /\ response' = [ op |-> "delete_quest", code |-> 200,
                              status |-> "success", id |-> quest_id ]
             /\ deleted' = deleted \cup {quest_id}
             /\ UNCHANGED <<engine_vars, session_vars, sys_stdout>>

\* validation = validate_solution(session.code, session.questId)
ValidateSolutionCall(code, quest_id) ==
    /\ response' = [ op |-> "validate_solution", quest_id |-> quest_id, code |-> code,
                     validation |->
                         ValidateSolution(code, quest_id, sys_stdout).validation ]
    /\ sys_stdout' = ValidateSolution(code, quest_id, sys_stdout).stdout
    /\ UNCHANGED <<engine_vars, session_vars, ALL_QUESTS, db_quests, deleted>>

NextQuests ==
    \/ SeedQuests
    \/ \E req \in CreateRequests : CreateQuest(req)
    \/ \E quest_id \in QuestIds : \E req \in UpdateRequests : UpdateQuest(quest_id, req)
    \/ \E quest_id \in QuestIds : DeleteQuest(quest_id)
    \/ \E code \in Codes : \E quest_id \in ValidatedKeys :
           ValidateSolutionCall(code, quest_id)

SpecQuests == InitQuests /\ [][NextQuests]_vars

-----------------------------------------------------------------------------
(* The quest catalogue: _get_or_generate_quests for a language and a level, *)
(* from Firestore, else from the AI generator, else from the hardcoded     *)
(* tables.  What the generator answers is the environment's choice.  A     *)
(* returned list is kept as the set of its quests.                          *)

\* The documents of the collection with this language and this level
CachedFor(docs, language, level) ==
    { d \in DOMAIN docs : docs[d].language = language /\ docs[d].level = level }

\* _get_quests_from_firestore(language, level)
QuestsFromFirestore(docs, language, level) ==
    { LookupEntry(docs, d) : d \in CachedFor(docs, language, level) }

\* valid_quests of _generate_quests_ai: each answered quest with the language
\* and the level it was asked for
ValidQuests(answer, language, level) ==
    [ i \in DOMAIN answer |->
        [ title |-> answer[i].title, xp |-> answer[i].xp,
          testCases |-> answer[i].testCases,
          language |-> language, level |-> level ] ]

\* The loop of _save_generated_quests_to_firestore from the i-th quest on: acc
\* holds the collection and the counter saved
RECURSIVE SaveGeneratedFrom(_, _, _, _, _)
SaveGeneratedFrom(acc, quests, language, level, i) ==
    IF i > Len(quests) THEN acc
    ELSE LET doc_id == DocId(language, quests[i].title)
         IN  IF doc_id \in DOMAIN acc.docs
             THEN SaveGeneratedFrom(acc, quests, language, level, i + 1)
             ELSE SaveGeneratedFrom(
                      [ docs  |-> SetDoc(acc.docs, doc_id,
                                    [ title       |-> quests[i].title,
                                      xp          |-> quests[i].xp,
                                      language    |-> language,
                                      level       |-> level,
                                      testCases   |-> quests[i].testCases,
                                      generatedBy |-> "ai" ]),
                        saved |-> acc.saved + 1 ],
                      quests, language, level, i + 1)

\* LANGUAGE_QUESTS.get(language, {}).get(level, [])
HardcodedFor(language, level) ==
    { HardcodedQuests[i].quest :
        i \in { j \in DOMAIN HardcodedQuests :
                  /\ HardcodedQuests[j].lang = language
                  /\ HardcodedQuests[j].level = level } }

\* The (language, level) pairs quests are asked for
CataloguePairs ==
    { <<"javascript", "Beginner">>, <<"javascript", "Advanced">>,
      <<"html", "Beginner">>, <<"rust", "Beginner">> }

\* What the generator answers: nothing (no client, an error, an empty list),
\* one quest, or two
GeneratorAnswers ==
    { << >>,
      << [title |-> "Loop Logic", xp |-> 20, testCases |-> << >>] >>,
      << [title |-> "Two Sum", xp |-> 30, testCases |-> << >>],
         [title |-> "Loop Logic", xp |-> 20, testCases |-> << >>] >> }

\* The collection when the first quests are asked for: empty, or seeded
CatalogueAtStartup ==
    { NoDocs, SeedFrom([docs |-> NoDocs, seeded |-> 0, skipped |-> 0], 1).docs }

InitCatalogue ==
    /\ WEIGHTS = WeightTable
    /\ session_data = EmptyDict
    /\ result = NoResult
    /\ pc = "called"
    /\ seen = NoCall
    /\ handlers = NoHandlers
    /\ SessionsAtStartup
    /\ db_quests \in CatalogueAtStartup
    /\ ALL_QUESTS = RebuildQuestLookup(HardcodedLookup, db_quests)
    /\ response = NoResponse
    /\ deleted = {}
    /\ sys_stdout = "real"

\* The generator asked first, before the Firestore cache
GetOrGenerateQuestsAiFirst(language, level, answer) ==
    LET cached == QuestsFromFirestore(db_quests, language, level)
        generated == ValidQuests(answer, language, level)
        done == SaveGeneratedFrom([docs |-> db_quests, saved |-> 0],
                                  generated, language, level, 1)
        hardcoded == HardcodedFor(language, level)
        answered(quests, source) ==
            [ op |-> "get_or_generate_quests", language |-> language,
              level |-> level, quests |-> quests, source |-> source,
              ai_invoked |-> TRUE, generated |-> generated ]
    IN  /\ IF Len(generated) > 0
           THEN /\ db_quests' = done.docs
                /\ ALL_QUESTS' = IF done.saved > 0
                                  THEN RebuildQuestLookup(ALL_QUESTS, done.docs)
                                  ELSE ALL_QUESTS
                /\ response' = answered({ generated[i] : i \in DOMAIN generated }, "ai")
           ELSE IF cached # {}
           THEN /\ response' = answered(cached, "firestore")
                /\ UNCHANGED <<db_quests, ALL_QUESTS>>
           ELSE /\ response' = answered(hardcoded, "hardcoded")
                /\ UNCHANGED <<db_quests, ALL_QUESTS>>
        /\ UNCHANGED <<engine_vars, session_vars, deleted, sys_stdout>>

\* quests = await _get_or_generate_quests(lang, skill_level, count)
GetOrGenerateQuests(language, level, answer) ==
    LET cached == QuestsFromFirestore(db_quests, language, level)
        generated == ValidQuests(answer, language, level)
        done == SaveGeneratedFrom([docs |-> db_quests, saved |-> 0],
                                  generated, language, level, 1)
        hardcoded == HardcodedFor(language, level)
    IN  /\ IF cached # {}
           THEN /\ response' = [ op |-> "get_or_generate_quests",
                                 language |-> language, level |-> level,
                                 quests |-> cached, source |-> "firestore",
                                 ai_invoked |-> FALSE, generated |-> << >> ]
                /\ UNCHANGED <<db_quests, ALL_QUESTS>>
           ELSE IF Len(generated) > 0
           THEN /\ db_quests' = done.docs
                /\ ALL_QUESTS' = IF done.saved > 0
                                  THEN RebuildQuestLookup(ALL_QUESTS, done.docs)
                                  ELSE ALL_QUESTS
                /\ response' = [ op |-> "get_or_generate_quests",
                                 language |-> language, level |-> level,
                                 quests |-> { generated[i] : i \in DOMAIN generated },
                                 source |-> "ai",
                                 ai_invoked |-> TRUE, generated |-> generated ]
           ELSE /\ response' = [ op |-> "get_or_generate_quests",
                                 language |-> language, level |-> level,
                                 quests |-> hardcoded, source |-> "hardcoded",
                                 ai_invoked |-> TRUE, generated |-> << >> ]
                /\ UNCHANGED <<db_quests, ALL_QUESTS>>
        /\ UNCHANGED <<engine_vars, session_vars, deleted, sys_stdout>>

NextCatalogue ==
    \E pair \in CataloguePairs : \E answer \in GeneratorAnswers :
        GetOrGenerateQuests(pair[1], pair[2], answer)

SpecCatalogue == InitCatalogue /\ [][NextCatalogue]_vars

-----------------------------------------------------------------------------
(* Submissions: validate_solution on a quest an admin has created, with    *)
(* test cases of every type, and on the hardcoded navigation-bar quest.    *)

MaxTests == 2

MaxOccurrences == 3

\* The test cases of the created quest: one of each type the elif chain knows,
\* code_count in both of the spellings the quests use, and a type it does not
\* know
TestCaseKinds ==
    { [type |-> "code_contains", expected |-> <<"for">>],
      [type |-> "code_count", pattern |-> "<li>", min |-> 3],
      [type |-> "code_count", pattern |-> "yield", min_count |-> 2],
      [type |-> "output_contains", expected |-> <<"1">>],
      [type |-> "function_test", function |-> "add"],
      [type |-> "code_line_count", max_lines |-> 1],
      [type |-> "regex_match", expected |-> <<"for">>] }

TestSuites == UNION { [1..n -> TestCaseKinds] : n \in 0..MaxTests }

\* Markup with n of each of its tags, and two-line programs: one that prints
\* nothing, two that print 1 and define a right or a wrong function, one that
\* raises, one that exits
SubmittedCodes ==
    { Code([p \in {"<nav>", "<ul>", "<li>", "<a ", "href", "yield"} |-> n],
           1, "returns", {}, "none") : n \in 0..MaxOccurrences }
    \cup
    { Code([p \in {"for"} |-> 1], 2, "returns", {}, "none"),
      Code([p \in {"for"} |-> 1], 2, "returns", {"1"}, "right"),
      Code([p \in {"for"} |-> 1], 2, "returns", {"1"}, "wrong"),
      Code([p \in {"for"} |-> 1], 2, "raises", {}, "none"),
      Code([p \in {"for"} |-> 1], 2, "exits", {}, "none") }

SubmittedKeys ==
    { IntKey(185), IntKey(7),
      StrKey(DocId("python", "Two Sum")), StrKey(DocId("html", "Two Sum")) }

\* An admin has created the quest "Two Sum" for python or for html
InitValidate ==
    /\ WEIGHTS = WeightTable
    /\ session_data = EmptyDict
    /\ result = NoResult
    /\ pc = "called"
    /\ seen = NoCall
    /\ handlers = NoHandlers
    /\ SessionsAtStartup
    /\ \E lang \in {"python", "html"} : \E suite \in TestSuites :
         LET doc_id == DocId(lang, "Two Sum")
             docs == SetDoc(NoDocs, doc_id,
                            [ title |-> "Two Sum", xp |-> 30, language |-> lang,
                              level |-> "Beginner", testCases |-> suite ])
         IN  /\ db_quests = docs
             /\ ALL_QUESTS = RebuildQuestLookup(HardcodedLookup, docs)
             /\ response = [ op |-> "create_quest", code |-> 200,
                             status |-> "success", id |-> doc_id ]
    /\ deleted = {}
    /\ sys_stdout = "real"

NextValidate ==
    \E code \in SubmittedCodes : \E quest_id \in SubmittedKeys :
        ValidateSolutionCall(code, quest_id)

SpecValidate == InitValidate /\ [][NextValidate]_vars

-----------------------------------------------------------------------------
(* The claims.  Each is stated on the input and the returned result alone.  *)

\* The call has returned
Returned == pc = "returned"

\* The raw behavioralSignals entry of the input, {} when the key is absent
RawSignals == Get(session_data, "behavioralSignals", EmptyDict)

\* A field of the raw behavioralSignals, the default when there is no such field
RawField(field, default) ==
    IF RawSignals = None THEN default ELSE Get(RawSignals, field, default)

InKeystrokes == Get(session_data, "totalKeystrokes", 0)

InActive == Get(session_data, "activeDuration", 0)

\* C1: for every snapshot with non-negative counters and durations, whatever
\* optional fields it has, analyze returns aiLikelihoodScore within [0, 100]
\* (0..1000 tenths) and confidence within [0, 95].
C1_ScoreAndConfidenceInRange ==
    Returned =>
        /\ result.status = "success"
        /\ result.aiLikelihoodScore \in 0..1000
        /\ result.confidence \in 0..95

\* All five data-sufficiency predicates hold and the score is in the top bucket
C1_Witness ==
    /\ Returned
    /\ result.status = "success"
    /\ result.confidence = 95
    /\ result.aiLikelihoodScore >= 700

\* C2: analyze never ends in an error: on full telemetry, telemetry without
\* behavioralSignals, behavioralSignals null or empty, or an empty object, it
\* returns a complete result whose signals mapping has exactly the eight keys,
\* each with a score, a weight and a verdict.
C2_AlwaysCompleteResult ==
    Returned =>
        /\ result.status = "success"
        /\ {"aiLikelihoodScore", "confidence", "signals", "recommendation"}
             \subseteq DOMAIN result
        /\ DOMAIN result.signals =
             { "typing_speed", "paste_ratio", "typing_rhythm", "deletion_ratio",
               "burst_pattern", "copilot_usage", "undo_redo_ratio", "idle_ratio" }
        /\ \A key \in DOMAIN result.signals :
             /\ {"score", "weight", "verdict"} \subseteq DOMAIN result.signals[key]
             /\ result.signals[key].score \in 0..100
             /\ result.signals[key].verdict \in {"human", "suspicious", "ai_likely"}

\* A call with behavioralSignals given as null has returned a result
C2_Witness ==
    /\ Returned
    /\ "behavioralSignals" \in DOMAIN session_data
    /\ session_data.behavioralSignals = None
    /\ result.status = "success"

\* The weighted sum of the eight scores, in hundredths, from the result alone
ClaimedWeightedSum ==
    LET s == result.signals
    IN  s.typing_speed.score * 15 + s.paste_ratio.score * 20
          + s.typing_rhythm.score * 15 + s.deletion_ratio.score * 10
          + s.burst_pattern.score * 10 + s.copilot_usage.score * 15
          + s.undo_redo_ratio.score * 5 + s.idle_ratio.score * 10

ClaimedTotalWeight == 15 + 20 + 15 + 10 + 10 + 15 + 5 + 10

\* t tenths is n / d rounded to one decimal: nearest, a tie to the even side
IsRoundedTo(t, n, d) ==
    LET twice == IF 10 * n >= t * d THEN 2 * (10 * n - t * d) ELSE 2 * (t * d - 10 * n)
    IN  /\ twice <= d
        /\ twice = d => t % 2 = 0

\* C3: aiLikelihoodScore = clamp(round(sum of score_i * weight_i over the eight
\* signals / sum of the eight weights), 0, 100), the rounding being to one
\* decimal: each signal contributes once, with its weight, and nothing else does.
C3_WeightedAverage ==
    (Returned /\ result.status = "success") =>
        \E t \in 0..1000 :
            /\ IsRoundedTo(t, ClaimedWeightedSum, ClaimedTotalWeight)
            /\ result.aiLikelihoodScore = Min(1000, Max(0, t))

\* A returned score whose exact average lies midway between two tenths
C3_Witness ==
    /\ Returned
    /\ result.status = "success"
    /\ (10 * ClaimedWeightedSum) % ClaimedTotalWeight = 50
    /\ result.signals.undo_redo_ratio.score = 55

\* C4: the eight weights (15, 20, 15, 10, 10, 15, 5, 10 hundredths) sum to
\* exactly 1.0 (100 hundredths) and the weight reported in each SignalResult is
\* the table weight of that signal.
C4_WeightsSumToOne ==
    LET claimed == [ typing_speed |-> 15, paste_ratio |-> 20, typing_rhythm |-> 15,
                     deletion_ratio |-> 10, burst_pattern |-> 10,
                     copilot_usage |-> 15, undo_redo_ratio |-> 5, idle_ratio |-> 10 ]
    IN  /\ WEIGHTS = claimed
        /\ WEIGHTS.typing_speed + WEIGHTS.paste_ratio + WEIGHTS.typing_rhythm
             + WEIGHTS.deletion_ratio + WEIGHTS.burst_pattern
             + WEIGHTS.copilot_usage + WEIGHTS.undo_redo_ratio
             + WEIGHTS.idle_ratio = 100
        /\ (Returned /\ result.status = "success") =>
               \A key \in DOMAIN claimed :
                   result.signals[key].weight = claimed[key]

\* A result that reports the two weights no other signal shares
C4_Witness ==
    /\ Returned
    /\ result.status = "success"
    /\ result.signals.paste_ratio.weight = 20
    /\ result.signals.undo_redo_ratio.weight = 5

ClaimedCounterPoints ==
    BoolToInt(Get(session_data, "totalEdits", 0) > 10)
      + BoolToInt(InActive > 600)
      + BoolToInt(InKeystrokes > 50)
      + BoolToInt(Len(RawField("typingIntervals", << >>)) >= 10)

\* C6 as amended: confidence = min(95, 19 * count), count being the number of
\* these that hold: at least 10 typing intervals; a NON-EMPTY behavioralSignals
\* object is present (null and the empty object count as absent); totalEdits >
\* 10; activeDuration > 60; totalKeystrokes > 50.
C6_ConfidenceCount ==
    (Returned /\ result.status = "success") =>
        result.confidence =
            Min(95, 19 * (ClaimedCounterPoints
                            + BoolToInt(RawSignals # None /\ RawSignals # EmptyDict)))

\* C6 as claimed: any behavioralSignals object present counts, the empty
\* object included.
C6_AsClaimed ==
    (Returned /\ result.status = "success") =>
        result.confidence =
            Min(95, 19 * (ClaimedCounterPoints
                            + BoolToInt("behavioralSignals" \in DOMAIN session_data
                                          /\ RawSignals # None)))

\* An empty behavioralSignals object was passed and did not count
C6_Witness ==
    /\ Returned
    /\ "behavioralSignals" \in DOMAIN session_data
    /\ session_data.behavioralSignals = EmptyDict
    /\ result.confidence = 57

\* C7: the recommendation is a function of the returned aiLikelihoodScore only
\* and changes exactly at 40 and 70: >= 70 high likelihood, >= 40 and < 70
\* moderate indicators, < 40 appears human-written; 39.9 and 40.0, and 69.9
\* and 70.0, fall in different buckets.
C7_RecommendationThresholds ==
    /\ (Returned /\ result.status = "success") =>
          /\ result.aiLikelihoodScore >= 700 =>
                result.recommendation =
                  "High likelihood of AI-generated code. Review behavioral signals for details."
          /\ (result.aiLikelihoodScore >= 400 /\ result.aiLikelihoodScore < 700) =>
                result.recommendation =
                  "Moderate AI indicators detected. Some code may be AI-assisted."
          /\ result.aiLikelihoodScore < 400 =>
                result.recommendation =
                  "Code appears to be human-written based on behavioral analysis."
    /\ Recommendation(399) # Recommendation(400)
    /\ Recommendation(699) # Recommendation(700)
    /\ Recommendation(400) = Recommendation(699)

\* A score of exactly 40.0 was returned with the moderate text
C7_Witness ==
    /\ Returned
    /\ result.status = "success"
    /\ result.aiLikelihoodScore = 400
    /\ result.recommendation = RecommendationModerate

\* The typing-speed ladder on cps = 10 * k / d (k keystrokes, d tenths)
ClaimedSpeed(k, d) ==
    IF 10 * k > 8 * d THEN <<95, "ai_likely">>
    ELSE IF 10 * k > 5 * d THEN <<75, "ai_likely">>
    ELSE IF 100 * k > 35 * d THEN <<40, "suspicious">>
    ELSE IF 100 * k > 15 * d THEN <<10, "human">>
    ELSE <<15, "human">>

ReturnedSpeed ==
    <<result.signals.typing_speed.score, result.signals.typing_speed.verdict>>

\* C8 as amended: with cps = totalKeystrokes / (activeDuration + 0.1) when
\* activeDuration > 0 and cps = 0 when activeDuration = 0, the signal scores
\* 95/ai_likely when cps > 8, 75/ai_likely when 5 < cps <= 8, 40/suspicious when
\* 3.5 < cps <= 5, 10/human when 1.5 < cps <= 3.5 and 15/human otherwise; cps =
\* 8.0 exactly does not take the > 8 branch, and 1000 keystrokes in 100 s
\* score 95/ai_likely.
C8_TypingSpeedThresholds ==
    (Returned /\ result.status = "success") =>
        ReturnedSpeed = IF InActive > 0
                        THEN ClaimedSpeed(InKeystrokes, InActive + 1)
                        ELSE ClaimedSpeed(0, 1)

\* C8 as claimed: cps = totalKeystrokes / (activeDuration + 0.1) throughout.
C8_AsClaimed ==
    (Returned /\ result.status = "success") =>
        ReturnedSpeed = ClaimedSpeed(InKeystrokes, InActive + 1)

\* 8 keystrokes in 0.9 s, cps exactly 8.0, were scored 75 and not 95
C8_Witness ==
    /\ Returned
    /\ InKeystrokes = 8
    /\ InActive = 9
    /\ ReturnedSpeed = <<75, "ai_likely">>

\* C9 as amended: the typing-speed metric is totalKeystrokes / (activeDuration
\* + 0.1) only when activeDuration > 0; a zero-duration snapshot is scored on
\* cps = 0 whatever its keystrokes, so activeDuration = 0 with 100 keystrokes
\* scores 15/human.
C9_ZeroDurationIsZeroSpeed ==
    (Returned /\ result.status = "success") =>
        /\ InActive = 0 => ReturnedSpeed = <<15, "human">>
        /\ InActive > 0 =>
              (result.signals.typing_speed.score = 95
                 <=> 10 * InKeystrokes > 8 * (InActive + 1))

\* C9 as claimed: the epsilon alone protects the division, so a zero-duration
\* snapshot with k keystrokes is scored on cps = k / 0.1 (k = 100: 95/ai_likely).
C9_AsClaimed ==
    (Returned /\ result.status = "success" /\ InActive = 0) =>
        ReturnedSpeed = ClaimedSpeed(InKeystrokes, 1)

\* 100 keystrokes in a zero-duration session were scored 15/human
C9_Witness ==
    /\ Returned
    /\ InKeystrokes = 100
    /\ InActive = 0
    /\ ReturnedSpeed = <<15, "human">>

\* The paste-ratio ladder on ratio = 10 * p / d (p pasted characters, d tenths)
ClaimedPaste(p, d) ==
    IF 100 * p > 8 * d THEN <<95, "ai_likely">>
    ELSE IF 100 * p > 5 * d THEN <<70, "ai_likely">>
    ELSE IF 100 * p > 3 * d THEN <<40, "suspicious">>
    ELSE IF 100 * p > d THEN <<15, "human">>
    ELSE <<5, "human">>

\* C10: with ratio = totalPasteCharacters / (totalKeystrokes +
\* totalPasteCharacters + 0.1) the paste-ratio signal scores 95/ai_likely when
\* ratio > 0.8, 70/ai_likely when 0.5 < ratio <= 0.8, 40/suspicious when 0.3 <
\* ratio <= 0.5, 15/human when 0.1 < ratio <= 0.3 and 5/human otherwise (also
\* with no behavioralSignals); 1000 keystrokes with 900 pasted characters
\* score 40/suspicious.
C10_PasteRatioThresholds ==
    (Returned /\ result.status = "success") =>
        LET p == RawField("totalPasteCharacters", 0)
        IN  <<result.signals.paste_ratio.score, result.signals.paste_ratio.verdict>>
              = ClaimedPaste(p, 10 * (InKeystrokes + p) + 1)

\* 1000 keystrokes and 900 pasted characters were scored 40/suspicious
C10_Witness ==
    /\ Returned
    /\ InKeystrokes = 1000
    /\ RawField("totalPasteCharacters", 0) = 900
    /\ result.signals.paste_ratio.score = 40
    /\ result.signals.paste_ratio.verdict = "suspicious"

InIntervals == RawField("typingIntervals", << >>)

\* n * n * (n - 1) times the sample variance of a series of n >= 2 values
ScaledVariance(s) ==
    Len(s) * (Len(s) * SumSquares(s) - SumSeq(s) * SumSeq(s))

\* stdev(s) / (mean(s) + e) < a / b, for e tenths and a series of n >= 2
\* non-negative values in tenths: both sides squared and multiplied out
VariationBelow(s, e, a, b) ==
    b * b * ScaledVariance(s)
        < a * a * (Len(s) - 1) * (SumSeq(s) + Len(s) * e) * (SumSeq(s) + Len(s) * e)

\* The typing-rhythm ladder on CV = stdev / (mean + e), and the keystroke
\* fallback for fewer than 10 samples
ClaimedRhythm(s, k, e) ==
    IF Len(s) >= 10
    THEN IF VariationBelow(s, e, 3, 10) THEN <<80, "ai_likely">>
         ELSE IF VariationBelow(s, e, 5, 10) THEN <<50, "suspicious">>
         ELSE IF VariationBelow(s, e, 8, 10) THEN <<20, "human">>
         ELSE <<5, "human">>
    ELSE IF k > 200 THEN <<60, "suspicious">> ELSE <<20, "human">>

ReturnedRhythm ==
    <<result.signals.typing_rhythm.score, result.signals.typing_rhythm.verdict>>

\* C11: with at least 10 samples the typing-rhythm signal is scored on
\* CV = stdev / (mean + 0.1): 80/ai_likely when CV < 0.3, 50/suspicious when
\* 0.3 <= CV < 0.5, 20/human when 0.5 <= CV < 0.8 and 5/human when CV >= 0.8;
\* with fewer than 10 samples it is 60/suspicious when totalKeystrokes > 200
\* and 20/human otherwise.
C11_TypingRhythmThresholds ==
    (Returned /\ result.status = "success") =>
        ReturnedRhythm = ClaimedRhythm(InIntervals, InKeystrokes, Epsilon)

\* C11 as stated, with CV = stdev / mean, on the series whose mean is not 0
\* (the quotient is undefined on the others)
C11_AsClaimed ==
    (Returned /\ result.status = "success"
        /\ (Len(InIntervals) >= 10 => SumSeq(InIntervals) > 0)) =>
        ReturnedRhythm = ClaimedRhythm(InIntervals, InKeystrokes, 0)

\* Nine intervals of 0 and one of 0.1 second (stdev / mean about 3.16,
\* stdev / (mean + 0.1) about 0.29) were scored 80/ai_likely
C11_Witness ==
    /\ Returned
    /\ InIntervals = Series(10, 0, 1, 1)
    /\ ~VariationBelow(InIntervals, 0, 8, 10)
    /\ ReturnedRhythm = <<80, "ai_likely">>

\* All the values of a series are the same
Identical(s) == \A i \in DOMAIN s : s[i] = s[1]

\* C12: a series of exactly 10 identical non-negative typing intervals
\* (standard deviation 0, the all-zero series included) is scored 80/ai_likely
\* by the measured-rhythm branch, and a series of 9 values is scored by the
\* keystroke fallback alone: 60/suspicious above 200 keystrokes, else 20/human.
C12_TenIdenticalSamples ==
    (Returned /\ result.status = "success") =>
        /\ (Len(InIntervals) = 10 /\ Identical(InIntervals)) =>
               ReturnedRhythm = <<80, "ai_likely">>
        /\ Len(InIntervals) = 9 =>
               ReturnedRhythm =
                   IF InKeystrokes > 200 THEN <<60, "suspicious">> ELSE <<20, "human">>

\* Ten intervals of 0 with 201 keystrokes were scored 80/ai_likely, not by the
\* keystroke fallback
C12_Witness ==
    /\ Returned
    /\ Len(InIntervals) = 10
    /\ \A i \in DOMAIN InIntervals : InIntervals[i] = 0
    /\ InKeystrokes = 201
    /\ ReturnedRhythm = <<80, "ai_likely">>

InEdits == Get(session_data, "totalEdits", 0)

\* The deletion ladder on ratio = 10 * d / (10 * e + 1), from five edits on
ClaimedDeletion(d, e) ==
    IF e < 5 THEN <<30, "suspicious">>
    ELSE IF 1000 * d < 5 * (10 * e + 1) THEN <<70, "ai_likely">>
    ELSE IF 1000 * d < 15 * (10 * e + 1) THEN <<40, "suspicious">>
    ELSE IF 100 * d < 4 * (10 * e + 1) THEN <<10, "human">>
    ELSE <<5, "human">>

ReturnedDeletion ==
    <<result.signals.deletion_ratio.score, result.signals.deletion_ratio.verdict>>

\* C13: the deletion signal is 30/suspicious whenever totalEdits < 5, zero
\* edits included and whatever the deletion count; from five edits on, with
\* ratio = totalDeletions / (totalEdits + 0.1), it is 70/ai_likely when
\* ratio < 0.05, 40/suspicious when 0.05 <= ratio < 0.15, 10/human when
\* 0.15 <= ratio < 0.4 and 5/human when ratio >= 0.4.
C13_DeletionThresholds ==
    (Returned /\ result.status = "success") =>
        ReturnedDeletion = ClaimedDeletion(RawField("totalDeletions", 0), InEdits)

\* Five deletions with no edit at all were scored 30/suspicious
C13_Witness ==
    /\ Returned
    /\ result.status = "success"
    /\ InEdits = 0
    /\ RawField("totalDeletions", 0) = 5
    /\ ReturnedDeletion = <<30, "suspicious">>

\* The undo ladder on ratio = 10 * u / (10 * e + 1), from five edits on
ClaimedUndo(u, e) ==
    IF e < 5 THEN <<25, "suspicious">>
    ELSE IF 1000 * u < 2 * (10 * e + 1) THEN <<55, "suspicious">>
    ELSE IF 100 * u < 10 * e + 1 THEN <<15, "human">>
    ELSE <<5, "human">>

ReturnedUndo ==
    <<result.signals.undo_redo_ratio.score, result.signals.undo_redo_ratio.verdict>>

\* C14: the undo/redo signal is 25/suspicious whenever totalEdits < 5; from
\* five edits on, with ratio = totalUndos / (totalEdits + 0.1), it is
\* 55/suspicious when ratio < 0.02, 15/human when 0.02 <= ratio < 0.1 and
\* 5/human when ratio >= 0.1; it is a function of totalUndos and totalEdits
\* alone, so totalRedos never changes it.
C14_UndoThresholds ==
    (Returned /\ result.status = "success") =>
        ReturnedUndo = ClaimedUndo(RawField("totalUndos", 0), InEdits)

\* One undo and one redo in 50 edits were scored 55/suspicious, as one undo
\* alone (ratio 0.01996); two undos in 50 edits are 15/human
C14_Witness ==
    /\ Returned
    /\ InEdits = 50
    /\ RawField("totalUndos", 0) = 1
    /\ RawField("totalRedos", 0) = 1
    /\ ReturnedUndo = <<55, "suspicious">>

InIdle == Get(session_data, "idleDuration", 0)

\* The total duration the thinking-time signal works with, in tenths
ClaimedTotalDuration ==
    IF "totalDuration" \in DOMAIN session_data /\ session_data["totalDuration"] # 0
    THEN session_data["totalDuration"]
    ELSE InActive + InIdle

\* The thinking-time ladder on ratio = idle / (td + 1), idle and td in tenths
ClaimedIdle(idle, td) ==
    IF td < 300 THEN <<50, "suspicious">>
    ELSE IF 100 * idle < 5 * (td + 1) THEN <<50, "suspicious">>
    ELSE IF 100 * idle < 15 * (td + 1) THEN <<25, "human">>
    ELSE <<10, "human">>

ReturnedIdle ==
    <<result.signals.idle_ratio.score, result.signals.idle_ratio.verdict>>

\* C15: the thinking-time signal takes totalDuration = activeDuration +
\* idleDuration when totalDuration is not supplied or is 0; it is 50/suspicious
\* when totalDuration < 30 and otherwise, with ratio = idleDuration /
\* (totalDuration + 0.1), 50/suspicious when ratio < 0.05, 25/human when
\* 0.05 <= ratio < 0.15 and 10/human when ratio >= 0.15.
C15_ThinkingTimeThresholds ==
    (Returned /\ result.status = "success") =>
        ReturnedIdle = ClaimedIdle(InIdle, ClaimedTotalDuration)

\* 60 s active and 16 s idle with no totalDuration were scored on 76 s:
\* ratio 0.21, 10/human
C15_Witness ==
    /\ Returned
    /\ "totalDuration" \notin DOMAIN session_data
    /\ InActive = 600
    /\ InIdle = 160
    /\ ReturnedIdle = <<10, "human">>

ClaimedCopilot(c) ==
    IF c > 10 THEN <<90, "ai_likely">>
    ELSE IF c >= 4 THEN <<60, "suspicious">>
    ELSE IF c >= 1 THEN <<30, "suspicious">>
    ELSE <<5, "human">>

ReturnedCopilot ==
    <<result.signals.copilot_usage.score, result.signals.copilot_usage.verdict>>

\* C16: the AI-tool-usage signal is a function of totalCopilotAccepts alone:
\* 90/ai_likely above 10 accepts, 60/suspicious for 4 to 10, 30/suspicious for
\* 1 to 3 and 5/human for 0 or with no behavioralSignals;
\* totalAutocompleteAccepts never changes it.
C16_CopilotThresholds ==
    (Returned /\ result.status = "success") =>
        ReturnedCopilot = ClaimedCopilot(RawField("totalCopilotAccepts", 0))

\* No Copilot accept and 11 autocomplete accepts were scored 5/human
C16_Witness ==
    /\ Returned
    /\ RawField("totalCopilotAccepts", 0) = 0
    /\ RawField("totalAutocompleteAccepts", 0) = 11
    /\ ReturnedCopilot = <<5, "human">>

ClaimedBurst(b) ==
    IF b >= 5 THEN <<80, "ai_likely">>
    ELSE IF b >= 2 THEN <<45, "suspicious">>
    ELSE <<10, "human">>

ReturnedBurst ==
    <<result.signals.burst_pattern.score, result.signals.burst_pattern.verdict>>

\* C17: the burst-pattern signal is a function of the raw burstCount alone:
\* 80/ai_likely from 5 bursts on, 45/suspicious for 2 to 4 and 10/human for 0
\* or 1 or with no behavioralSignals.
C17_BurstThresholds ==
    (Returned /\ result.status = "success") =>
        ReturnedBurst = ClaimedBurst(RawField("burstCount", 0))

\* Exactly five bursts were scored 80/ai_likely
C17_Witness ==
    /\ Returned
    /\ RawField("burstCount", 0) = 5
    /\ ReturnedBurst = <<80, "ai_likely">>

\* C18: on the all-zero snapshot {totalKeystrokes: 0, activeDuration: 0,
\* idleDuration: 0} analyze completes without error, the typing-speed signal
\* is 15/human, the paste-ratio signal is 5/human, and the aggregate
\* aiLikelihoodScore is strictly between 0 and 40.
C18_AllZeroSnapshot ==
    (Returned /\ session_data = ZeroSnapshot) =>
        /\ result.status = "success"
        /\ ReturnedSpeed = <<15, "human">>
        /\ <<result.signals.paste_ratio.score, result.signals.paste_ratio.verdict>>
             = <<5, "human">>
        /\ result.aiLikelihoodScore > 0
        /\ result.aiLikelihoodScore < 400

\* The all-zero snapshot was analysed and scored 17.2
C18_Witness ==
    /\ Returned
    /\ session_data = ZeroSnapshot
    /\ result.status = "success"
    /\ result.aiLikelihoodScore = 172

\* C19: analyze has no side effects: at every point of every interleaving of
\* the handlers' calls each snapshot is as it was given (nested
\* behavioralSignals and typingIntervals included) and WEIGHTS is the table
\* the class defines, and every call returns what analyze returns on its
\* snapshot when run alone.
C19_NoInterference ==
    /\ WEIGHTS = WeightTable
    /\ \A h \in Handlers :
         /\ handlers[h].snapshot = handlers[h].given
         /\ handlers[h].at = "returned" =>
                handlers[h].out = Analyze(handlers[h].given)

\* Two calls on different snapshots have overlapped and both have returned,
\* with different scores
C19_Witness ==
    \E h \in Handlers : \E g \in Handlers \ {h} :
        /\ handlers[h].at = "returned"
        /\ handlers[g].at = "returned"
        /\ handlers[h].overlapped
        /\ handlers[g].overlapped
        /\ handlers[h].given # handlers[g].given
        /\ handlers[h].out.status = "success"
        /\ handlers[g].out.status = "success"
        /\ handlers[h].out.aiLikelihoodScore # handlers[g].out.aiLikelihoodScore

\* The keys of the documents now stored in Firestore
StoredKeys == { StrKey(d) : d \in DOMAIN db_quests }

\* An admin operation has just gone through, and with it the rebuild
JustRebuilt ==
    /\ response.op \in {"seed_quests", "create_quest", "update_quest", "delete_quest"}
    /\ response.code = 200

\* C20: after an admin quest operation (seed, create_quest, update_quest,
\* delete_quest) and its _rebuild_quest_lookup, ALL_QUESTS holds exactly the
\* hardcoded quests and the quests now stored in Firestore; and once
\* delete_quest has succeeded for a quest id that is stored no longer,
\* validate_solution for that id reports 'Quest not found'.
C20_LookupIsHardcodedPlusStored ==
    /\ JustRebuilt =>
         /\ DOMAIN ALL_QUESTS = HardcodedKeys \cup StoredKeys
         /\ \A k \in HardcodedKeys : ALL_QUESTS[k].id = k.int
         /\ \A d \in DOMAIN db_quests :
              /\ ALL_QUESTS[StrKey(d)].id = d
              /\ \A f \in DOMAIN db_quests[d] :
                   ALL_QUESTS[StrKey(d)][f] = db_quests[d][f]
    /\ ( /\ response.op = "validate_solution"
         /\ \E d \in deleted \ DOMAIN db_quests : response.quest_id = StrKey(d) ) =>
           response.validation.message = "Quest not found"

\* validate_solution has just been called
Validated == response.op = "validate_solution"

\* The test cases of the quest the call was for, none for an unknown quest id
ValidatedTests ==
    IF response.quest_id \in DOMAIN ALL_QUESTS
    THEN Get(ALL_QUESTS[response.quest_id], "testCases", << >>)
    ELSE << >>

\* C21: a code_count test case written {"type": "code_count", "pattern": P,
\* "min": N} passes only when P occurs at least N times in the submitted code
\* (stated on the quests whose only test case is of that form).
C21_CodeCountMinimum ==
    ( /\ Validated
      /\ Len(ValidatedTests) = 1
      /\ ValidatedTests[1].type = "code_count"
      /\ "min" \in DOMAIN ValidatedTests[1]
      /\ "tests_passed" \in DOMAIN response.validation
      /\ response.validation.tests_passed = 1 ) =>
        Get(response.code.occurs, ValidatedTests[1].pattern, 0) >= ValidatedTests[1].min

\* C22: validate_solution returns a result for every call, every test case
\* having been evaluated: passed = false with tests_total = 0 for an unknown
\* quest id, passed = true for a quest with no test cases, and otherwise
\* passed = true exactly when tests_passed >= 0.5 * tests_total, with
\* tests_total the number of test cases of the quest and
\* 0 <= tests_passed <= tests_total.
C22_PassRule ==
    Validated =>
        LET v == response.validation
            known == response.quest_id \in DOMAIN ALL_QUESTS
        IN  /\ "passed" \in DOMAIN v
            /\ ~known => (~v.passed /\ v.tests_total = 0)
            /\ (known /\ Len(ValidatedTests) = 0) => v.passed
            /\ (known /\ Len(ValidatedTests) > 0) =>
                 /\ v.passed <=> 2 * v.tests_passed >= v.tests_total
                 /\ v.tests_total = Len(ValidatedTests)
                 /\ v.tests_passed \in 0..v.tests_total

\* C30: validate_solution leaves sys.stdout as it found it, on every path.
C30_StdoutUnchanged == [][sys_stdout' = sys_stdout]_vars


-----------------------------------------------------------------------------
(* The quest catalogue *)

\* The step is a call of _get_or_generate_quests
Catalogued == response'.op = "get_or_generate_quests"

\* The document a generated quest is saved as
GeneratedDoc(quest) ==
    [ title |-> quest.title, xp |-> quest.xp, language |-> quest.language,
      level |-> quest.level, testCases |-> quest.testCases,
      generatedBy |-> "ai" ]

\* The order of the three sources: Firestore's quests of the pair and no
\* generation; else generation; a generated list returned; else the hardcoded
\* quests of the pair, which may be none
SourcesInOrder ==
    LET r == response'
        cached == CachedFor(db_quests, r.language, r.level)
    IN  /\ cached # {} =>
              /\ r.quests = QuestsFromFirestore(db_quests, r.language, r.level)
              /\ ~r.ai_invoked
              /\ db_quests' = db_quests
        /\ cached = {} => r.ai_invoked
        /\ (cached = {} /\ r.generated # << >>) =>
              r.quests = { r.generated[i] : i \in DOMAIN r.generated }
        /\ (cached = {} /\ r.generated = << >>) =>
              /\ r.quests = HardcodedFor(r.language, r.level)
              /\ db_quests' = db_quests

-----------------------------------------------------------------------------
(* Seeding and creating quests *)

\* Every document of the collection is kept as it is by the step
DocumentsKept ==
    \A d \in DOMAIN db_quests :
        d \in DOMAIN db_quests' /\ db_quests'[d] = db_quests[d]

\* The document ids of the hardcoded quests
HardcodedDocIds ==
    { DocId(HardcodedQuests[i].lang, HardcodedQuests[i].quest.title) :
        i \in DOMAIN HardcodedQuests }

\* C25: seed_quests overwrites no document and creates documents only for the
\* hardcoded quests whose id does not exist, seeded + skipped is the number of
\* hardcoded quests, a seed directly after a seed reports seeded = 0, and
\* create_quest for an existing id answers 409 and leaves the collection as it was
C25_SeedNeverOverwrites ==
    [][ /\ response'.op = "seed_quests" =>
             /\ DocumentsKept
             /\ DOMAIN db_quests' = DOMAIN db_quests \cup HardcodedDocIds
             /\ response'.seeded = Cardinality(HardcodedDocIds \ DOMAIN db_quests)
             /\ response'.seeded + response'.skipped = Len(HardcodedQuests)
             /\ response.op = "seed_quests" => response'.seeded = 0
        /\ (response'.op = "create_quest" /\ response'.id \in DOMAIN db_quests) =>
             /\ response'.code = 409
             /\ db_quests' = db_quests ]_vars

\* A seed found every hardcoded quest stored, one of them edited by the admin
\* since, and left it so
C25_Witness ==
    /\ response.op = "seed_quests"
    /\ response.seeded = 0
    /\ response.skipped = Len(HardcodedQuests)
    /\ \E d \in HardcodedDocIds : db_quests[d].xp = 60

\* create_quest answered 409 for a title that is stored
C25_Refused ==
    /\ response.op = "create_quest"
    /\ response.code = 409
    /\ response.id \in DOMAIN db_quests

-----------------------------------------------------------------------------
(* Sessions: the documents of the collection "sessions" and the endpoints   *)
(* session_start, session_update, session_end and detect_ai.  A document    *)
(* keeps its status, its counters and durations, its behavioralSignals and  *)
(* its aiDetection; the user, the files, the languages, the stats and the   *)
(* timestamps are left out.                                                  *)

\* The ids uuid4 gives to the sessions that are started
SessionIds == {"s1", "s2"}

\* The ids in the paths of the requests: one of them is never a session's
PathIds == SessionIds \cup {"ghost"}

\* The behavioralSignals a request carries when it carries them
SignalChoices == { FullSignals(900, << >>, 0, 0, 11, 0, 0, 0) }

\* SessionUpdateRequest: behavioralSignals is None (no key here) or a model
SessionUpdateRequests ==
    LET counters == { Telemetry(51, 3, 11, 601, 20), Telemetry(1000, 0, 0, 1000, 0) }
    IN  counters \cup { WithSignals(t, bs) : t \in counters, bs \in SignalChoices }

\* SessionEndRequest: the same with totalDuration
SessionEndRequests ==
    { WithTotal(r, r.activeDuration + r.idleDuration) : r \in SessionUpdateRequests }

\* doc_ref.update(update_data)
UpdateDoc(doc, update_data) ==
    [ f \in DOMAIN doc \cup DOMAIN update_data |->
        IF f \in DOMAIN update_data THEN update_data[f] ELSE doc[f] ]

\* detection_input of detect_ai, from the stored document
StoredDetectionInput(doc) ==
    [ totalKeystrokes   |-> Get(doc, "totalKeystrokes", 0),
      totalPastes       |-> Get(doc, "totalPastes", 0),
      totalEdits        |-> Get(doc, "totalEdits", 0),
      activeDuration    |-> Get(doc, "activeDuration", 0),
      idleDuration      |-> Get(doc, "idleDuration", 0),
      totalDuration     |-> Get(doc, "totalDuration", 0),
      behavioralSignals |-> Get(doc, "behavioralSignals", EmptyDict) ]

\* detection_input of session_end, from the request
RequestDetectionInput(req) ==
    [ totalKeystrokes   |-> req.totalKeystrokes,
      totalPastes       |-> req.totalPastes,
      totalEdits        |-> req.totalEdits,
      activeDuration    |-> req.activeDuration,
      idleDuration      |-> req.idleDuration,
      totalDuration     |-> req.totalDuration,
      behavioralSignals |-> Get(req, "behavioralSignals", EmptyDict) ]

\* The four entries of a detection result
AiDetection(detection_result) ==
    [ aiLikelihoodScore |-> detection_result.aiLikelihoodScore,
      confidence        |-> detection_result.confidence,
      signals           |-> detection_result.signals,
      recommendation    |-> detection_result.recommendation ]

\* raise HTTPException(status_code=404, detail="Session not found")
NotFound(endpoint, session_id) ==
    [ endpoint |-> endpoint, code |-> 404, detail |-> "Session not found",
      sessionId |-> session_id ]

InitSessions ==
    /\ WEIGHTS = WeightTable
    /\ session_data = EmptyDict
    /\ result = NoResult
    /\ pc = "called"
    /\ seen = NoCall
    /\ handlers = NoHandlers
    /\ QuestsAtStartup
    /\ SessionsAtStartup

\* POST /session/start
SessionStart ==
    \E session_id \in SessionIds \ DOMAIN db_sessions :
        /\ db_sessions' = SetDoc(db_sessions, session_id,
                            [ status |-> "active", totalKeystrokes |-> 0,
                              totalPastes |-> 0, totalEdits |-> 0,
                              totalDuration |-> 0, activeDuration |-> 0,
                              idleDuration |-> 0 ])
        /\ reply' = [ endpoint |-> "session_start", code |-> 200,
                      sessionId |-> session_id ]
        /\ analyses' = 0
        /\ UNCHANGED <<engine_vars, quest_vars>>

\* PUT /session/{session_id}/update writing the document whether it exists or not
SessionUpdateUpserts(session_id, req) ==
    /\ db_sessions' = SetDoc(db_sessions, session_id,
                        UpdateDoc(Get(db_sessions, session_id, EmptyDict), req))
    /\ reply' = [ endpoint |-> "session_update", code |-> 200,
                  sessionId |-> session_id ]
    /\ analyses' = 0
    /\ UNCHANGED <<engine_vars, quest_vars>>

\* PUT /session/{session_id}/update
SessionUpdate(session_id, req) ==
    /\ IF session_id \notin DOMAIN db_sessions
       THEN /\ reply' = NotFound("session_update", session_id)
            /\ UNCHANGED db_sessions
       ELSE /\ db_sessions' = SetDoc(db_sessions, session_id,
                                UpdateDoc(db_sessions[session_id], req))
            /\ reply' = [ endpoint |-> "session_update", code |-> 200,
                          sessionId |-> session_id ]
    /\ analyses' = 0
    /\ UNCHANGED <<engine_vars, quest_vars>>

\* update_data of session_end
EndUpdate(req, detection_result) ==
    LET always == [ status          |-> "completed",
                    totalKeystrokes |-> req.totalKeystrokes,
                    totalPastes     |-> req.totalPastes,
                    totalEdits      |-> req.totalEdits,
                    totalDuration   |-> req.totalDuration,
                    activeDuration  |-> req.activeDuration,
                    idleDuration    |-> req.idleDuration,
                    aiDetection     |-> AiDetection(detection_result) ]
    IN  IF "behavioralSignals" \in DOMAIN req
        THEN WithSignals(always, req.behavioralSignals)
        ELSE always

\* POST /session/{session_id}/end with the signals of the request always stored,
\* the empty dict when it carries none
SessionEndStoresItsInput(session_id, req) ==
    LET detection_result == Analyze(RequestDetectionInput(req))
    IN  IF session_id \notin DOMAIN db_sessions
        THEN /\ reply' = NotFound("session_end", session_id)
             /\ analyses' = 0
             /\ UNCHANGED <<db_sessions, engine_vars, quest_vars>>
        ELSE IF detection_result = Exception
        THEN /\ reply' = [ endpoint |-> "session_end", code |-> 500,
                           sessionId |-> session_id ]
             /\ analyses' = 1
             /\ UNCHANGED <<db_sessions, engine_vars, quest_vars>>
        ELSE /\ db_sessions' =
                    SetDoc(db_sessions, session_id,
                           UpdateDoc(db_sessions[session_id],
                                     WithSignals(EndUpdate(req, detection_result),
                                                 Get(req, "behavioralSignals", EmptyDict))))
             /\ reply' = [ endpoint |-> "session_end", code |-> 200,
                           sessionId |-> session_id ]
             /\ analyses' = 1
             /\ UNCHANGED <<engine_vars, quest_vars>>

\* POST /session/{session_id}/end
SessionEnd(session_id, req) ==
    LET detection_result == Analyze(RequestDetectionInput(req))
    IN  IF session_id \notin DOMAIN db_sessions
        THEN /\ reply' = NotFound("session_end", session_id)
             /\ analyses' = 0
             /\ UNCHANGED <<db_sessions, engine_vars, quest_vars>>
        ELSE IF detection_result = Exception
        THEN /\ reply' = [ endpoint |-> "session_end", code |-> 500,
                           sessionId |-> session_id ]
             /\ analyses' = 1
             /\ UNCHANGED <<db_sessions, engine_vars, quest_vars>>
        ELSE /\ db_sessions' =
                    SetDoc(db_sessions, session_id,
                           UpdateDoc(db_sessions[session_id],
                                     EndUpdate(req, detection_result)))
             /\ reply' = [ endpoint |-> "session_end", code |-> 200,
                           sessionId |-> session_id ]
             /\ analyses' = 1
             /\ UNCHANGED <<engine_vars, quest_vars>>

\* POST /detect-ai/{session_id}
DetectAi(session_id) ==
    IF session_id \notin DOMAIN db_sessions
    THEN /\ reply' = NotFound("detect_ai", session_id)
         /\ analyses' = 0
         /\ UNCHANGED <<db_sessions, engine_vars, quest_vars>>
    ELSE LET detection_result ==
                 Analyze(StoredDetectionInput(db_sessions[session_id]))
         IN  IF detection_result = Exception
             THEN /\ reply' = [ endpoint |-> "detect_ai", code |-> 500,
                                sessionId |-> session_id ]
                  /\ analyses' = 1
                  /\ UNCHANGED <<db_sessions, engine_vars, quest_vars>>
             ELSE /\ db_sessions' =
                         SetDoc(db_sessions, session_id,
                                UpdateDoc(db_sessions[session_id],
                                          [aiDetection |-> AiDetection(detection_result)]))
                  /\ reply' = [ endpoint |-> "detect_ai", code |-> 200,
                                sessionId |-> session_id,
                                result |-> AiDetection(detection_result) ]
                  /\ analyses' = 1
                  /\ UNCHANGED <<engine_vars, quest_vars>>

NextSessions ==
    \/ SessionStart
    \/ \E session_id \in PathIds : \E req \in SessionUpdateRequests :
           SessionUpdate(session_id, req)
    \/ \E session_id \in PathIds : \E req \in SessionEndRequests :
           SessionEnd(session_id, req)
    \/ \E session_id \in PathIds : DetectAi(session_id)

SpecSessions == InitSessions /\ [][NextSessions]_vars

-----------------------------------------------------------------------------
(* The session endpoints *)

\* C24: session_update, session_end and detect_ai on an id that is no session's
\* answer 404 'Session not found', leave every session document as it was,
\* create none and run no detection
C24_UnknownSessionWritesNothing ==
    [][ ( /\ reply'.endpoint \in {"session_update", "session_end", "detect_ai"}
          /\ reply'.sessionId \notin DOMAIN db_sessions ) =>
            /\ reply'.code = 404
            /\ reply'.detail = "Session not found"
            /\ db_sessions' = db_sessions
            /\ analyses' = 0 ]_vars

\* An unknown id was refused while another session was stored
C24_Witness ==
    /\ reply.endpoint \in {"session_update", "session_end", "detect_ai"}
    /\ reply.code = 404
    /\ reply.sessionId \notin DOMAIN db_sessions
    /\ db_sessions # NoDocs

\* C26: when session_end has completed a session, the aiDetection stored in its
\* document is analyze applied to the counters, durations and behavioralSignals
\* stored in that same document
C26_StoredDetectionIsOfStoredTelemetry ==
    (reply.endpoint = "session_end" /\ reply.code = 200) =>
        LET doc == db_sessions[reply.sessionId]
            again == Analyze(StoredDetectionInput(doc))
        IN  /\ again # Exception
            /\ doc.aiDetection = AiDetection(again)

\* detect_ai directly after session_end, on the same session, returns the
\* score and the confidence session_end stored
C26_DetectAiAgrees ==
    [][ ( /\ reply.endpoint = "session_end" /\ reply.code = 200
          /\ reply'.endpoint = "detect_ai" /\ reply'.code = 200
          /\ reply'.sessionId = reply.sessionId ) =>
            LET stored == db_sessions[reply.sessionId].aiDetection
            IN  /\ reply'.result.aiLikelihoodScore = stored.aiLikelihoodScore
                /\ reply'.result.confidence = stored.confidence ]_vars

\* The same as C26 for the requests of session_end that carry behavioralSignals
C26_WithSignalsInTheRequest ==
    ( /\ reply.endpoint = "session_end" /\ reply.code = 200
      /\ "behavioralSignals" \in DOMAIN db_sessions[reply.sessionId]
      /\ db_sessions[reply.sessionId].aiDetection.signals.copilot_usage.score > 10 ) =>
        LET doc == db_sessions[reply.sessionId]
        IN  doc.aiDetection = AiDetection(Analyze(StoredDetectionInput(doc)))

-----------------------------------------------------------------------------
(* Quest submissions and the range of the score *)

\* C27: a quest submission analysed through /analyze scores at most 35.3, is
\* recommended as human-written and has a confidence of at most 38
C27_QuestSubmissionStaysBelowForty ==
    (Returned /\ session_data \in QuestFamily) =>
        /\ result.aiLikelihoodScore <= 353
        /\ result.recommendation = RecommendationHuman
        /\ result.confidence <= 38

\* A quest submission typed faster than 8 keys a second for more than a minute:
\* the weighted average 35.25 is rounded to 35.2, the confidence is 38
C27_Witness ==
    /\ Returned
    /\ session_data \in QuestFamily
    /\ result.aiLikelihoodScore = 352
    /\ result.confidence = 38

\* The weighted sum and the total weight of the signals returned
ReturnedSum == WeightedSum(result.signals, DOMAIN result.signals)

ReturnedWeight == TotalWeight(result.signals, DOMAIN result.signals)

\* C28: the weighted average of a result lies between 6.75 and 81.5, so the
\* clamp to 0..100 changes nothing and the score is never 0 and never above 81.5
C28_ClampNeverTakesEffect ==
    (Returned /\ result.status = "success") =>
        /\ ReturnedWeight > 0
        /\ 100 * ReturnedSum >= 675 * ReturnedWeight
        /\ 100 * ReturnedSum <= 8150 * ReturnedWeight
        /\ result.aiLikelihoodScore = RoundOneDecimal(ReturnedSum, ReturnedWeight)
        /\ result.aiLikelihoodScore # 0
        /\ result.aiLikelihoodScore <= 815

\* Every signal at its highest score: the average and the score are 81.5
C28_Witness ==
    /\ Returned
    /\ result.status = "success"
    /\ 100 * ReturnedSum = 8150 * ReturnedWeight
    /\ result.aiLikelihoodScore = 815

\* Every signal at its lowest score: the average is 6.75, the score 6.8
C28_LowestReached ==
    /\ Returned
    /\ result.status = "success"
    /\ 100 * ReturnedSum = 675 * ReturnedWeight
    /\ result.aiLikelihoodScore = 68

\* C29: every signal's verdict is human, suspicious or ai_likely; an ai_likely
\* signal scores at least 70, a suspicious one from 25 to 60, a human one at
\* most 25
C29_VerdictMatchesScore ==
    (Returned /\ result.status = "success") =>
        \A key \in DOMAIN result.signals :
            LET signal == result.signals[key]
            IN  /\ signal.verdict \in {"human", "suspicious", "ai_likely"}
                /\ signal.verdict = "ai_likely" => signal.score >= 70
                /\ signal.verdict = "suspicious" =>
                       (signal.score >= 25 /\ signal.score <= 60)
                /\ signal.verdict = "human" => signal.score <= 25

\* One result with all three verdicts: an ai_likely signal at its lowest
\* score 70, a suspicious one at its lowest score 25, and a human one
C29_Witness ==
    /\ Returned
    /\ result.status = "success"
    /\ \E key \in DOMAIN result.signals :
         result.signals[key].verdict = "ai_likely" /\ result.signals[key].score = 70
    /\ \E key \in DOMAIN result.signals :
         result.signals[key].verdict = "suspicious" /\ result.signals[key].score = 25
    /\ \E key \in DOMAIN result.signals :
         result.signals[key].verdict = "human" /\ result.signals[key].score <= 25

\* A human signal at its highest score 25
C29_HumanAtItsBound ==
    /\ Returned
    /\ result.status = "success"
    /\ \E key \in DOMAIN result.signals :
         result.signals[key].verdict = "human" /\ result.signals[key].score = 25
=============================================================================
